---- MODULE Spec2Model ----
(***************************************************************************)
(* State-machine model of the PropertyConnect REST API (Judi-demo-Connect): *)
(* the Express route handlers of routes/agents.js, routes/properties.js     *)
(* (kept in src/middleware/auth.js from line 141 on), routes/upload.js and   *)
(* routes/contact.js (kept in src/routes/upload.js from line 390 on), and   *)
(* the Mongoose models User and Property they act on.                       *)
(*                                                                         *)
(* Every handler that reads a document and saves it later is split at its   *)
(* await: a Begin step (middleware, validation, the read, the early         *)
(* returns) and a Finish step (the computation on the in-memory copy and    *)
(* the save).  Other requests may run between the two.                      *)
(***************************************************************************)
EXTENDS Integers, Sequences, FiniteSets, TLC

VARIABLES
    rating,     \* stored agentProfile.rating of every agent: [average, count]
    profile,    \* the other stored paths of every user document that requests write
    hist,       \* history: per agent, the ratings accepted with 200, whether two requests overlapped,
                \* the files that uploads of the agent which failed left on the media host, and how
                \* many fetches of the agent's properties by others were answered 200
    props,      \* the Property collection: one document (or none) per id
    nextProp,   \* how many properties were created so far (ids are never reused)
    remote,     \* the public_ids stored on the external media host
    nextPid,    \* how many files were sent to the media host so far
    contacts,   \* how many Contact documents are stored
    reqs,       \* the requests in flight, one record per slot
    budget,     \* how many more requests the clients will send
    last        \* the latest HTTP response, with the request it answers

vars == <<rating, profile, hist, props, nextProp, remote, nextPid, contacts, reqs, budget, last>>
userVars == <<rating, profile, hist>>
propVars == <<props, nextProp, remote, nextPid>>

(***************************************************************************)
(* Bounds of the model                                                     *)
(***************************************************************************)
MaxRateRequests == 3    \* requests sent in the rating specification
MaxRequests == 2        \* requests sent in the specification of the whole API
MaxInFlight == 2        \* requests that may be between their read and their save
MaxProps == 1           \* properties that may be created
MaxFiles == 2           \* files in one multipart upload
MaxImageIndex == 3      \* positions an image request may name

Slots == 1..MaxInFlight

(***************************************************************************)
(* Users.  The user collection is filled by routes/auth.js, which is not   *)
(* part of the sources; it is a fixed collection here.                      *)
(***************************************************************************)
Anon == "anon"                               \* a request without a token
Users == {"a1", "a2", "adm", "usr"}
Agents == {"a1", "a2"}                       \* isAgent = true
Callers == Users \cup {Anon}
RateCallers == {"a1", "usr", Anon}           \* who sends the rate requests
RateTargets == {"a1", "usr", "nobody"}       \* :id of a rate request: an agent, a user who is no agent, no user

isAgent(u) == u \in Agents
role(u) == IF u = "adm" THEN "admin" ELSE IF u \in Agents THEN "agent" ELSE "user"
isActive(u) == u \in Users

\* the paths of a user document, other than agentProfile.rating, that the
\* handlers write, with the values a new document has
NewProfile ==
    [path \in {"agentProfile.experience", "agentProfile.specialization", "agentProfile.bio",
               "agentProfile.phone", "agentProfile.address", "agentProfile.profileImage",
               "profileImage", "agentProfile.verificationDocuments"} |->
        IF path = "agentProfile.verificationDocuments" THEN <<>> ELSE 0]

(***************************************************************************)
(* Numbers.  rating.average is a JavaScript double; the model computes it   *)
(* exactly, as a fraction <<numerator, denominator>> in lowest terms.       *)
(***************************************************************************)
RECURSIVE GCD(_, _)
GCD(a, b) == IF b = 0 THEN a ELSE GCD(b, a % b)

Norm(n, d) == LET g == GCD(n, d) IN <<n \div g, d \div g>>
RatInt(k) == <<k, 1>>
RatAdd(p, q) == Norm(p[1] * q[2] + q[1] * p[2], p[2] * q[2])
RatMulInt(p, k) == Norm(p[1] * k, p[2])
RatDivInt(p, k) == Norm(p[1], p[2] * k)
RatLeq(p, q) == p[1] * q[2] <= q[1] * p[2]

RECURSIVE RatSum(_)
RatSum(s) == IF s = <<>> THEN RatInt(0) ELSE RatAdd(s[1], RatSum(Tail(s)))

\* body.rating values the clients send: three inside [1,5], two outside
RatingInputs == {<<1, 1>>, <<5, 2>>, <<5, 1>>, <<0, 1>>, <<6, 1>>}

\* body('rating').isFloat({ min: 1, max: 5 })
RatingMin == 1
RatingMax == 5
\* a validation chain without the max option
ValidRating_noMax(x) == RatLeq(RatInt(RatingMin), x)
ValidRating(x) == RatLeq(RatInt(RatingMin), x) /\ RatLeq(x, RatInt(RatingMax))

(***************************************************************************)
(* User.updateRating and the save of the agent document                     *)
(***************************************************************************)
\* a plausible slip: the new average divides by the old count
updateRating_oldCount(doc, newRating) ==
    LET currentTotal == RatMulInt(doc.average, doc.count)
    IN  [count |-> doc.count + 1,
         average |-> IF doc.count = 0 THEN RatAdd(currentTotal, newRating)
                     ELSE RatDivInt(RatAdd(currentTotal, newRating), doc.count)]

\* userSchema.methods.updateRating, on the in-memory document
updateRating(doc, newRating) ==
    LET currentTotal == RatMulInt(doc.average, doc.count)
        count == doc.count + 1
    IN  [count |-> count,
         average |-> RatDivInt(RatAdd(currentTotal, newRating), count)]

\* a guarded save: the count is incremented in the store ($inc), not overwritten
saveRating_inc(stored, loaded, mem) ==
    [count |-> stored.count + 1,
     average |-> IF mem.average # loaded.average THEN mem.average ELSE stored.average]

\* this.save() of updateRating: Mongoose sends $set for the paths whose value
\* differs from the loaded one and leaves the other stored paths alone
saveRating(stored, loaded, mem) ==
    [count |-> IF mem.count # loaded.count THEN mem.count ELSE stored.count,
     average |-> IF mem.average # loaded.average THEN mem.average ELSE stored.average]

(***************************************************************************)
(* Requests and responses                                                  *)
(***************************************************************************)
Idle == [op |-> "idle"]
\* a new request takes the first slot no handler runs in
FreeSlot(r) == reqs[r].op = "idle" /\ \A r2 \in 1..(r - 1) : reqs[r2].op # "idle"

\* res.status(code).json(...) for the request (op, user, id).  bad records
\* whether the request's input was malformed or out of range, was the status
\* the property had before the request wrote, cloud how many calls of the
\* media host the request made
RespondWith(op, user, id, bad, code, msg, was, cloud) ==
    last' = [n |-> last.n + 1, op |-> op, user |-> user, id |-> id,
             bad |-> bad, code |-> code, msg |-> msg, was |-> was, cloud |-> cloud]

Respond(op, user, id, bad, code, msg) == RespondWith(op, user, id, bad, code, msg, "", 0)

NoResponse == [n |-> 0, op |-> "none", user |-> Anon, id |-> 0,
               bad |-> FALSE, code |-> 0, msg |-> "none", was |-> "", cloud |-> 0]

(***************************************************************************)
(* POST /api/agents/:id/rate                                                *)
(***************************************************************************)
\* a handler without the self-rating check
RateDecision_noSelfCheck(user, target, x) ==
    IF user = Anon THEN <<401, "no token">>
    ELSE IF ~ValidRating(x) THEN <<400, "validation">>
    ELSE IF ~(target \in Users /\ isAgent(target) /\ isActive(target)) THEN <<404, "agent not found">>
    ELSE <<200, "proceed">>

\* protect, the validation chain, the lookup of the agent and the self-rating
\* check, in the order of the handler: the response it ends with, or 200 to
\* go on to updateRating
RateDecision(user, target, x) ==
    IF user = Anon THEN <<401, "no token">>
    ELSE IF ~ValidRating(x) THEN <<400, "validation">>
    ELSE IF ~(target \in Users /\ isAgent(target) /\ isActive(target)) THEN <<404, "agent not found">>
    ELSE IF user = target THEN <<400, "cannot rate yourself">>
    ELSE <<200, "proceed">>

Overlaps(r, target) ==
    \E r2 \in Slots \ {r} : reqs[r2].op = "rate" /\ reqs[r2].id = target

RateBegin(r, user, target, x) ==
    /\ FreeSlot(r)
    /\ budget > 0
    /\ budget' = budget - 1
    /\ LET d == RateDecision(user, target, x)
       IN  IF d[1] = 200
           THEN /\ reqs' = [reqs EXCEPT ![r] = [op |-> "rate", user |-> user, id |-> target,
                                                arg |-> x, doc |-> rating[target]]]
                /\ hist' = [hist EXCEPT ![target].overlap = @ \/ Overlaps(r, target)]
                /\ UNCHANGED <<rating, last>>
           ELSE /\ Respond("rate", user, target, ~ValidRating(x), d[1], d[2])
                /\ UNCHANGED <<rating, hist, reqs>>
    /\ UNCHANGED <<profile, propVars, contacts>>

RateFinish(r) ==
    /\ reqs[r].op = "rate"
    /\ LET q == reqs[r]
           mem == updateRating(q.doc, q.arg)
       IN  /\ rating' = [rating EXCEPT ![q.id] = saveRating(@, q.doc, mem)]
           /\ hist' = [hist EXCEPT ![q.id].vals = Append(@, q.arg)]
           /\ Respond("rate", q.user, q.id, FALSE, 200, "rating submitted")
    /\ reqs' = [reqs EXCEPT ![r] = Idle]
    /\ UNCHANGED <<profile, budget, propVars, contacts>>

(***************************************************************************)
(* Property documents (models/Property.js)                                  *)
(***************************************************************************)
PropIds == 1..MaxProps
NoDoc == [exists |-> FALSE]

\* propertySchema.status enum
Statuses == {"draft", "active", "pending", "sold", "rented", "inactive"}
Absent == "absent"                           \* a body field that is not sent
Bogus == "bogus"                             \* a status outside the enumeration

\* an element of property.images
Image(pid, primary) == [pid |-> pid, caption |-> "", isPrimary |-> primary]
Primaries(images) == {i \in 1..Len(images) : images[i].isPrimary}

\* a new document: the schema defaults, the agent and what the body gives.
\* An optional field of a body is a sequence of length 0 (absent) or 1.
NewProperty(agent, status, images) ==
    [exists |-> TRUE, agent |-> agent,
     status |-> IF status = Absent THEN "draft" ELSE status,
     images |-> IF images = <<>> THEN <<>> ELSE images[1],
     v |-> 0, views |-> 0, impressions |-> 0, inquiries |-> <<>>]

\* the image lists the clients send in a body: none, or three images of which
\* the first and the third are flagged primary
BodyImages == { <<>>, << <<Image(0, TRUE), Image(0, FALSE), Image(0, TRUE)>> >> }
\* the statuses the clients send in the body of a create or an update
BodyStatuses == {Absent, "active", "sold", Bogus}
\* fields: whether the fields the express-validator chain looks at are valid
CreateBodies == [fields : {"ok", "bad"}, status : BodyStatuses, images : BodyImages, agent : {Absent, "a2"}]
PutBodies == [status : BodyStatuses, images : BodyImages]

\* the schema validators Mongoose runs on create and (runValidators) on update
SchemaValid(body) == body.status \in Statuses \cup {Absent}

\* the ownership check of the handlers: the owning agent or an admin
\* a check that lets every agent through
Owns_anyAgent(user, doc) == isAgent(user) \/ role(user) = "admin"

Owns(user, doc) == ~(doc.agent # user /\ role(user) # "admin")

\* doc.save(): Mongoose sends $set for the scalar paths whose value differs
\* from the loaded one, to the stored document
saveScalars(stored, loaded, mem) ==
    [stored EXCEPT
        !.status = IF mem.status # loaded.status THEN mem.status ELSE @,
        !.views = IF mem.views # loaded.views THEN mem.views ELSE @,
        !.impressions = IF mem.impressions # loaded.impressions THEN mem.impressions ELSE @]

PropBegin(r, op, user, id, arg) ==
    reqs' = [reqs EXCEPT ![r] = [op |-> op, user |-> user, id |-> id, arg |-> arg, doc |-> props[id]]]

Finishing(r, op) == reqs[r].op = op /\ reqs' = [reqs EXCEPT ![r] = Idle]

(***************************************************************************)
(* POST /api/properties                                                     *)
(***************************************************************************)
\* a create without requireAgent
CreateDecision_anyUser(user, body) ==
    IF user = Anon THEN <<401, "no token">>
    ELSE IF body.fields = "bad" THEN <<400, "validation">>
    ELSE IF ~SchemaValid(body) THEN <<500, "something went wrong">>
    ELSE <<201, "created">>

CreateDecision(user, body) ==
    IF user = Anon THEN <<401, "no token">>
    ELSE IF ~isAgent(user) THEN <<403, "agent privileges required">>
    ELSE IF body.fields = "bad" THEN <<400, "validation">>
    ELSE IF ~SchemaValid(body) THEN <<500, "something went wrong">>
    ELSE <<201, "created">>

Create(user, body) ==
    /\ budget > 0
    /\ budget' = budget - 1
    /\ LET d == CreateDecision(user, body)
           bad == body.fields = "bad" \/ ~SchemaValid(body)
       IN  IF d[1] = 201
           THEN /\ nextProp < MaxProps
                /\ nextProp' = nextProp + 1
                \* req.body.agent = req.user.id
                /\ props' = [props EXCEPT ![nextProp + 1] = NewProperty(user, body.status, body.images)]
                /\ Respond("create", user, nextProp + 1, bad, 201, d[2])
           ELSE /\ Respond("create", user, 0, bad, d[1], d[2])
                /\ UNCHANGED <<props, nextProp>>
    /\ UNCHANGED <<userVars, remote, nextPid, contacts, reqs>>

(***************************************************************************)
(* PUT /api/properties/:id, DELETE /api/properties/:id                      *)
(***************************************************************************)
\* protect, findById and the ownership check shared by the owner-only handlers
OwnerDecision(user, id) ==
    IF user = Anon THEN <<401, "no token">>
    ELSE IF ~props[id].exists THEN <<404, "property not found">>
    ELSE IF ~Owns(user, props[id]) THEN <<403, "not authorized">>
    ELSE <<200, "proceed">>

PutBegin(r, user, id, body) ==
    /\ FreeSlot(r) /\ budget > 0
    /\ budget' = budget - 1
    /\ LET d == OwnerDecision(user, id)
       IN  IF d[1] = 200
           THEN PropBegin(r, "put", user, id, body) /\ UNCHANGED last
           ELSE Respond("put", user, id, ~SchemaValid(body), d[1], d[2]) /\ UNCHANGED reqs
    /\ UNCHANGED <<userVars, propVars, contacts>>

\* Property.findByIdAndUpdate(id, req.body, { new: true, runValidators: true })
findByIdAndUpdate(stored, body) ==
    [stored EXCEPT
        !.status = IF body.status # Absent THEN body.status ELSE @,
        !.images = IF body.images # <<>> THEN body.images[1] ELSE @]

PutFinish(r) ==
    /\ Finishing(r, "put")
    /\ LET q == reqs[r]
           stored == props[q.id]
       IN  IF ~SchemaValid(q.arg)
           THEN Respond("put", q.user, q.id, TRUE, 500, "something went wrong") /\ UNCHANGED props
           ELSE IF ~stored.exists
           THEN Respond("put", q.user, q.id, FALSE, 200, "updated") /\ UNCHANGED props
           ELSE /\ props' = [props EXCEPT ![q.id] = findByIdAndUpdate(stored, q.arg)]
                /\ RespondWith("put", q.user, q.id, FALSE, 200, "updated", stored.status, 0)
    /\ UNCHANGED <<userVars, nextProp, remote, nextPid, contacts, budget>>

DeleteBegin(r, user, id) ==
    /\ FreeSlot(r) /\ budget > 0
    /\ budget' = budget - 1
    /\ LET d == OwnerDecision(user, id)
       IN  IF d[1] = 200
           THEN PropBegin(r, "delete", user, id, 0) /\ UNCHANGED last
           ELSE Respond("delete", user, id, FALSE, d[1], d[2]) /\ UNCHANGED reqs
    /\ UNCHANGED <<userVars, propVars, contacts>>

\* Property.findByIdAndDelete(id)
DeleteFinish(r) ==
    /\ Finishing(r, "delete")
    /\ props' = [props EXCEPT ![reqs[r].id] = NoDoc]
    /\ Respond("delete", reqs[r].user, reqs[r].id, FALSE, 200, "deleted")
    /\ UNCHANGED <<userVars, nextProp, remote, nextPid, contacts, budget>>

(***************************************************************************)
(* PUT /api/properties/:id/status                                           *)
(***************************************************************************)
StatusInputs == Statuses \cup {Bogus}

StatusDecision(user, id, status) ==
    IF user = Anon THEN <<401, "no token">>
    ELSE IF status \notin Statuses THEN <<400, "validation">>
    ELSE IF ~props[id].exists THEN <<404, "property not found">>
    ELSE IF ~Owns(user, props[id]) THEN <<403, "not authorized">>
    ELSE <<200, "proceed">>

StatusBegin(r, user, id, status) ==
    /\ FreeSlot(r) /\ budget > 0
    /\ budget' = budget - 1
    /\ LET d == StatusDecision(user, id, status)
       IN  IF d[1] = 200
           THEN PropBegin(r, "status", user, id, status) /\ UNCHANGED last
           ELSE Respond("status", user, id, status \notin Statuses, d[1], d[2]) /\ UNCHANGED reqs
    /\ UNCHANGED <<userVars, propVars, contacts>>

\* a transition graph in which sold and rented are terminal
setStatus_terminal(doc, status) ==
    IF doc.status \in {"sold", "rented"} THEN doc ELSE [doc EXCEPT !.status = status]

\* property.status = req.body.status
setStatus(doc, status) == [doc EXCEPT !.status = status]

\* await property.save(): a save of a document that was deleted meanwhile fails
\* (DocumentNotFoundError) and ends in the error handler of server.js
StatusFinish(r) ==
    /\ Finishing(r, "status")
    /\ LET q == reqs[r]
           stored == props[q.id]
           mem == setStatus(q.doc, q.arg)
       IN  IF ~stored.exists
           THEN Respond("status", q.user, q.id, FALSE, 500, "something went wrong") /\ UNCHANGED props
           ELSE /\ props' = [props EXCEPT ![q.id] = saveScalars(stored, q.doc, mem)]
                /\ RespondWith("status", q.user, q.id, FALSE, 200, "status updated", stored.status, 0)
    /\ UNCHANGED <<userVars, nextProp, remote, nextPid, contacts, budget>>

(***************************************************************************)
(* GET /api/properties/:id, POST /api/properties/:id/inquiry                *)
(***************************************************************************)
\* optionalAuth never rejects; the owner's own fetch does not count as a view
ViewBegin(r, user, id) ==
    /\ FreeSlot(r) /\ budget > 0
    /\ budget' = budget - 1
    /\ IF ~props[id].exists
       THEN Respond("view", user, id, FALSE, 404, "property not found") /\ UNCHANGED reqs
       ELSE IF user = Anon \/ user # props[id].agent
       THEN PropBegin(r, "view", user, id, 0) /\ UNCHANGED last
       ELSE Respond("view", user, id, FALSE, 200, "property") /\ UNCHANGED reqs
    /\ UNCHANGED <<userVars, propVars, contacts>>

\* propertySchema.methods.incrementViews, on the in-memory document
incrementViews(doc) ==
    [doc EXCEPT !.views = @ + 1, !.impressions = @ + 1]

ViewFinish(r) ==
    /\ Finishing(r, "view")
    /\ LET q == reqs[r]
           stored == props[q.id]
           mem == incrementViews(q.doc)
       IN  IF ~stored.exists
           THEN Respond("view", q.user, q.id, FALSE, 500, "something went wrong") /\ UNCHANGED props
           ELSE /\ props' = [props EXCEPT ![q.id] = saveScalars(stored, q.doc, mem)]
                /\ Respond("view", q.user, q.id, FALSE, 200, "property")
    /\ hist' = IF props[reqs[r].id].exists
               THEN [hist EXCEPT ![props[reqs[r].id].agent].fetched = @ + 1]
               ELSE hist
    /\ UNCHANGED <<rating, profile, nextProp, remote, nextPid, contacts, budget>>

\* message: whether body.message passes isLength({ min: 10, max: 500 })
InquiryBegin(r, user, id, message) ==
    /\ FreeSlot(r) /\ budget > 0
    /\ budget' = budget - 1
    /\ IF message = "bad"
       THEN Respond("inquiry", user, id, TRUE, 400, "validation") /\ UNCHANGED reqs
       ELSE IF ~props[id].exists
       THEN Respond("inquiry", user, id, FALSE, 404, "property not found") /\ UNCHANGED reqs
       ELSE PropBegin(r, "inquiry", user, id, 0) /\ UNCHANGED last
    /\ UNCHANGED <<userVars, propVars, contacts>>

\* Date.now(): the clock of the model is the number of responses sent so far,
\* which never goes back; two requests may read the same time
now == last.n

\* an element of property.inquiries; createdAt defaults to the time of the push
Inquiry(createdAt) == [createdAt |-> createdAt]

\* an inquiry that also moves the listing to pending
addInquiry_pending(doc, time) ==
    [doc EXCEPT !.inquiries = Append(@, Inquiry(time)), !.status = "pending"]

\* propertySchema.methods.addInquiry, on the in-memory document
addInquiry(doc, time) ==
    [doc EXCEPT !.inquiries = Append(@, Inquiry(time))]

\* the save of a pushed array: $push of the new elements onto the stored
\* array and $inc of __v, with no check of the version
InquiryFinish(r) ==
    /\ Finishing(r, "inquiry")
    /\ LET q == reqs[r]
           stored == props[q.id]
           mem == addInquiry(q.doc, now)
       IN  IF ~stored.exists
           THEN Respond("inquiry", q.user, q.id, FALSE, 500, "something went wrong") /\ UNCHANGED props
           ELSE /\ props' = [props EXCEPT ![q.id] =
                        [saveScalars(stored, q.doc, mem) EXCEPT
                            !.inquiries = @ \o SubSeq(mem.inquiries, Len(q.doc.inquiries) + 1, Len(mem.inquiries)),
                            !.v = @ + 1]]
                /\ Respond("inquiry", q.user, q.id, FALSE, 200, "inquiry submitted")
    /\ UNCHANGED <<userVars, nextProp, remote, nextPid, contacts, budget>>

(***************************************************************************)
(* POST /api/contact, GET /api/agents/dashboard/stats                       *)
(***************************************************************************)
ContactCreate(user, fields) ==
    /\ budget > 0
    /\ budget' = budget - 1
    /\ IF fields = "bad"
       THEN Respond("contact", user, 0, TRUE, 400, "validation") /\ UNCHANGED contacts
       ELSE Respond("contact", user, 0, FALSE, 201, "thank you") /\ contacts' = contacts + 1
    /\ UNCHANGED <<userVars, propVars, reqs>>

\* the properties of an agent: { agent: agentId }
ownedBy(coll, user) == {p \in DOMAIN coll : coll[p].exists /\ coll[p].agent = user}

RECURSIVE sumOver(_, _)
\* $group with $sum: the sum of value[p] over the documents p in S
sumOver(value, S) ==
    IF S = {} THEN 0
    ELSE LET p == CHOOSE x \in S : TRUE
         IN  value[p] + sumOver(value, S \ {p})

\* .limit(5) and .slice(0, 5)
RecentLimit == 5

\* a sort that takes the first element of the array
sortKey_first(doc) == doc.inquiries[1].createdAt

\* the key of .sort({ 'inquiries.createdAt': -1 }): a descending sort on a
\* path through an array compares the largest element of the array
sortKey(doc) ==
    LET dates == {doc.inquiries[i].createdAt : i \in 1..Len(doc.inquiries)}
    IN  CHOOSE d \in dates : \A e \in dates : e <= d

RECURSIVE findRecent(_, _, _)
\* find(...).sort({ 'inquiries.createdAt': -1 }).limit(n) over the documents S:
\* every order of the first n that respects the sort (ties come in any order)
findRecent(coll, S, n) ==
    IF n = 0 \/ S = {} THEN {<<>>}
    ELSE LET top == {p \in S : \A q \in S : sortKey(coll[q]) <= sortKey(coll[p])}
         IN  UNION {{<<p>> \o o : o \in findRecent(coll, S \ {p}, n - 1)} : p \in top}

RECURSIVE flatten(_, _)
\* recentInquiries.forEach(property => property.inquiries.forEach(push))
flatten(coll, order) ==
    IF order = <<>> THEN <<>>
    ELSE [i \in 1..Len(coll[order[1]].inquiries) |->
             [createdAt |-> coll[order[1]].inquiries[i].createdAt, propertyId |-> order[1], index |-> i]]
         \o flatten(coll, Tail(order))

RECURSIVE sortNewestFirst(_)
\* flatInquiries.sort((a, b) => new Date(b.createdAt) - new Date(a.createdAt)):
\* Array.prototype.sort is stable
sortNewestFirst(s) ==
    IF s = <<>> THEN <<>>
    ELSE LET x == s[Len(s)]
             t == sortNewestFirst(SubSeq(s, 1, Len(s) - 1))
             k == Cardinality({i \in 1..Len(t) : t[i].createdAt >= x.createdAt})
         IN  SubSeq(t, 1, k) \o <<x>> \o SubSeq(t, k + 1, Len(t))

\* a dashboard that counts a view of every property it reports on
afterQueries_viewed(coll, user) ==
    [p \in DOMAIN coll |-> IF p \in ownedBy(coll, user) THEN [coll[p] EXCEPT !.views = @ + 1] ELSE coll[p]]

\* the collection after the handler's queries: countDocuments, aggregate with
\* $match, $project and $group, and find().lean() write nothing
afterQueries(coll, user) == coll

\* the body of the response, from the order in which the find returned the
\* properties with inquiries
dashboardStats(coll, user, order) ==
    LET mine == ownedBy(coll, user)
        flatInquiries == sortNewestFirst(flatten(coll, order))
    IN  [totalProperties |-> Cardinality(mine),
         activeProperties |-> Cardinality({p \in mine : coll[p].status = "active"}),
         soldProperties |-> Cardinality({p \in mine : coll[p].status \in {"sold", "rented"}}),
         draftProperties |-> Cardinality({p \in mine : coll[p].status = "draft"}),
         totalViews |-> sumOver([p \in mine |-> coll[p].views], mine),
         \* { $size: '$inquiries' }
         totalInquiries |-> sumOver([p \in mine |-> Len(coll[p].inquiries)], mine),
         rating |-> rating[user],
         recentInquiries |-> SubSeq(flatInquiries, 1, IF Len(flatInquiries) < RecentLimit
                                                      THEN Len(flatInquiries) ELSE RecentLimit)]

\* protect, requireAgent and the handler.  Its reads are taken together: no
\* claim relates one of the numbers to another
Dashboard(user) ==
    /\ budget > 0
    /\ budget' = budget - 1
    /\ IF user = Anon THEN Respond("dashboard", user, 0, FALSE, 401, "no token") /\ UNCHANGED props
       ELSE IF ~isAgent(user)
       THEN Respond("dashboard", user, 0, FALSE, 403, "agent privileges required") /\ UNCHANGED props
       ELSE \E order \in findRecent(props, {p \in ownedBy(props, user) : Len(props[p].inquiries) > 0}, RecentLimit) :
               /\ last' = [n |-> last.n + 1, op |-> "dashboard", user |-> user, id |-> 0, bad |-> FALSE,
                           code |-> 200, msg |-> "stats", was |-> "", cloud |-> 0,
                           body |-> dashboardStats(props, user, order)]
               /\ props' = afterQueries(props, user)
    /\ UNCHANGED <<userVars, nextProp, remote, nextPid, contacts, reqs>>

(***************************************************************************)
(* POST /api/upload/property-images/:propertyId                             *)
(***************************************************************************)
\* files: how many files the multipart body holds; badFile: one of them is
\* no image, which multer's fileFilter refuses before the handler runs
UploadDecision(user, id, files, badFile) ==
    IF user = Anon THEN <<401, "no token">>
    ELSE IF ~isAgent(user) THEN <<403, "agent privileges required">>
    ELSE IF badFile THEN <<400, "only image files are allowed">>
    ELSE IF ~props[id].exists THEN <<404, "property not found">>
    ELSE IF ~Owns(user, props[id]) THEN <<403, "not authorized">>
    ELSE IF files = 0 THEN <<400, "no images uploaded">>
    ELSE <<200, "proceed">>

\* uploadToCloudinary(file.buffer, 'properties', filename): the promise of one
\* file's upload, with the public_id the call names
Promise(public_id) == [public_id |-> public_id, state |-> "pending"]

\* a join that waits for every upload and keeps the files that were stored
PromiseAll_settled(promises) ==
    IF \E i \in 1..Len(promises) : promises[i].state = "pending" THEN "pending"
    ELSE IF \E i \in 1..Len(promises) : promises[i].state = "resolved" THEN "resolved"
    ELSE "rejected"

\* Promise.all(uploadPromises): rejected as soon as one promise rejects,
\* resolved when every promise has resolved
PromiseAll(promises) ==
    IF \E i \in 1..Len(promises) : promises[i].state = "rejected" THEN "rejected"
    ELSE IF \A i \in 1..Len(promises) : promises[i].state = "resolved" THEN "resolved"
    ELSE "pending"

\* req.files.map(...) starts one upload per file at once, each under a
\* public_id of its own; arg holds the promises
UploadBegin(r, user, id, files, badFile) ==
    /\ FreeSlot(r) /\ budget > 0
    /\ budget' = budget - 1
    /\ LET d == UploadDecision(user, id, files, badFile)
       IN  IF d[1] = 200
           THEN /\ PropBegin(r, "upload", user, id, [index \in 1..files |-> Promise(nextPid + index)])
                /\ nextPid' = nextPid + files
                /\ UNCHANGED last
           ELSE Respond("upload", user, id, badFile \/ files = 0, d[1], d[2]) /\ UNCHANGED <<reqs, nextPid>>
    /\ UNCHANGED <<userVars, props, nextProp, remote, contacts>>

\* the callback of upload_stream for one file, in any order among the files
\* and the other requests: the host stored the file (ok) or failed.  The
\* first failure rejects Promise.all; the handler answers through next(error)
\* while the other uploads go on, and nothing takes back a stored file
UploadSettle(r, index, ok) ==
    /\ reqs[r].op = "upload"
    /\ index \in 1..Len(reqs[r].arg)
    /\ reqs[r].arg[index].state = "pending"
    /\ LET q == reqs[r]
           promises == [q.arg EXCEPT ![index].state = IF ok THEN "resolved" ELSE "rejected"]
       IN  /\ remote' = IF ok THEN remote \cup {q.arg[index].public_id} ELSE remote
           /\ IF PromiseAll(q.arg) = "pending" /\ PromiseAll(promises) = "rejected"
              THEN RespondWith("upload", q.user, q.id, FALSE, 500, "something went wrong", "", Len(q.arg))
              ELSE UNCHANGED last
           /\ IF PromiseAll(promises) = "rejected" /\ \A i \in 1..Len(promises) : promises[i].state # "pending"
              THEN reqs' = [reqs EXCEPT ![r] = Idle]
              ELSE reqs' = [reqs EXCEPT ![r].arg = promises]
           /\ hist' = IF \E i \in 1..Len(promises) : promises[i].state = "rejected"
                      THEN [hist EXCEPT ![q.user].lost =
                               @ \cup {promises[i].public_id : i \in {j \in 1..Len(promises) : promises[j].state = "resolved"}}]
                      ELSE hist
    /\ UNCHANGED <<rating, profile, props, nextProp, nextPid, contacts, budget>>

\* the objects the upload promises resolve to, from the in-memory document:
\* the first file is primary if the property had no image when it was read
uploadedImages(doc, promises) ==
    [index \in 1..Len(promises) |-> Image(promises[index].public_id, index = 1 /\ Len(doc.images) = 0)]

\* after await Promise.all: property.images.push(...uploadedImages) and
\* property.save(), which sends one $push of all the new elements and $inc of
\* __v, with no check of the version
UploadFinish(r) ==
    /\ Finishing(r, "upload")
    /\ PromiseAll(reqs[r].arg) = "resolved"
    /\ LET q == reqs[r]
           stored == props[q.id]
           new == uploadedImages(q.doc, q.arg)
       IN  IF ~stored.exists
           THEN RespondWith("upload", q.user, q.id, FALSE, 500, "something went wrong", "", Len(q.arg))
                /\ UNCHANGED props
           ELSE /\ props' = [props EXCEPT ![q.id] =
                        [stored EXCEPT !.images = @ \o new, !.v = @ + 1]]
                /\ RespondWith("upload", q.user, q.id, FALSE, 200, "images uploaded", "", Len(q.arg))
    /\ UNCHANGED <<userVars, nextProp, remote, nextPid, contacts, budget>>

(***************************************************************************)
(* PUT and DELETE /api/upload/property-images/:propertyId/:imageId          *)
(***************************************************************************)
\* :imageId is given as the position the image has when the handler reads the
\* property (findIndex); a position beyond the list is an id no image has
ImageDecision(user, id, index) ==
    IF user = Anon THEN <<401, "no token">>
    ELSE IF ~props[id].exists THEN <<404, "property not found">>
    ELSE IF ~Owns(user, props[id]) THEN <<403, "not authorized">>
    ELSE IF index > Len(props[id].images) THEN <<404, "image not found">>
    ELSE <<200, "proceed">>

ImageUpdateBodies == [caption : {Absent, "c"}, isPrimary : {Absent, "true", "false"}]

ImageUpdateBegin(r, user, id, index, body) ==
    /\ FreeSlot(r) /\ budget > 0
    /\ budget' = budget - 1
    /\ LET d == ImageDecision(user, id, index)
       IN  IF d[1] = 200
           THEN PropBegin(r, "imgupdate", user, id, [index |-> index, body |-> body]) /\ UNCHANGED last
           ELSE Respond("imgupdate", user, id, FALSE, d[1], d[2]) /\ UNCHANGED reqs
    /\ UNCHANGED <<userVars, propVars, contacts>>

\* the handler's changes to the in-memory image list
updateImage(images, index, body) ==
    LET captioned == IF body.caption # Absent
                     THEN [images EXCEPT ![index].caption = body.caption]
                     ELSE images
    IN  IF body.isPrimary = "true"
        THEN [i \in 1..Len(captioned) |-> [captioned[i] EXCEPT !.isPrimary = (i = index)]]
        ELSE captioned

Blank == [pid |-> 0, caption |-> "", isPrimary |-> FALSE]

\* $set of the changed paths images.<i>.caption and images.<i>.isPrimary on the
\* stored array; a position beyond the stored array is created by the store
setChangedImages(storedImages, loaded, mem) ==
    LET changed == {i \in 1..Len(mem) : mem[i] # loaded[i]}
        top == IF changed = {} THEN 0 ELSE CHOOSE i \in changed : \A j \in changed : j <= i
        n == IF top > Len(storedImages) THEN top ELSE Len(storedImages)
        at(i) == IF i <= Len(storedImages) THEN storedImages[i] ELSE Blank
    IN  [i \in 1..n |->
            IF i \in changed
            THEN [at(i) EXCEPT
                    !.caption = IF mem[i].caption # loaded[i].caption THEN mem[i].caption ELSE @,
                    !.isPrimary = IF mem[i].isPrimary # loaded[i].isPrimary THEN mem[i].isPrimary ELSE @]
            ELSE at(i)]

\* await property.save(): paths inside an array are sent with the loaded __v
\* in the query (VersionError when it differs); nothing is sent when nothing
\* changed
ImageUpdateFinish(r) ==
    /\ Finishing(r, "imgupdate")
    /\ LET q == reqs[r]
           stored == props[q.id]
           mem == updateImage(q.doc.images, q.arg.index, q.arg.body)
       IN  IF ~stored.exists \/ (mem # q.doc.images /\ stored.v # q.doc.v)
           THEN Respond("imgupdate", q.user, q.id, FALSE, 500, "something went wrong") /\ UNCHANGED props
           ELSE /\ props' = [props EXCEPT ![q.id].images = setChangedImages(@, q.doc.images, mem)]
                /\ Respond("imgupdate", q.user, q.id, FALSE, 200, "image updated")
    /\ UNCHANGED <<userVars, nextProp, remote, nextPid, contacts, budget>>

ImageDeleteBegin(r, user, id, index) ==
    /\ FreeSlot(r) /\ budget > 0
    /\ budget' = budget - 1
    /\ LET d == ImageDecision(user, id, index)
       IN  IF d[1] = 200
           THEN PropBegin(r, "imgdelete", user, id, index) /\ UNCHANGED last
           ELSE Respond("imgdelete", user, id, FALSE, d[1], d[2]) /\ UNCHANGED reqs
    /\ UNCHANGED <<userVars, propVars, contacts>>

\* images.splice(imageIndex, 1)
splice(images, index) ==
    [i \in 1..(Len(images) - 1) |-> IF i < index THEN images[i] ELSE images[i + 1]]

\* a delete that promotes no image
deleteImage_noPromotion(images, index) == splice(images, index)

\* the handler's changes to the in-memory image list: the splice, and the
\* promotion of the first remaining image when the deleted one was primary
deleteImage(images, index) ==
    LET imageToDelete == images[index]
        rest == splice(images, index)
    IN  IF imageToDelete.isPrimary /\ Len(rest) > 0
        THEN [rest EXCEPT ![1].isPrimary = TRUE]
        ELSE rest

\* a handler that passes the failure of the media host on to next(error)
destroyThrows_rethrown(destroyed) == ~destroyed

\* try { await cloudinary.uploader.destroy(...) } catch { console.error }:
\* whether the failure of the media host leaves the try statement
destroyThrows(destroyed) == FALSE

\* destroyed: whether cloudinary.uploader.destroy succeeded; it is called
\* once.  The save sends the whole array with the loaded __v in the query and
\* increments __v
ImageDeleteFinish(r, destroyed) ==
    /\ Finishing(r, "imgdelete")
    /\ LET q == reqs[r]
           stored == props[q.id]
           mem == deleteImage(q.doc.images, q.arg)
       IN  /\ remote' = IF destroyed THEN remote \ {q.doc.images[q.arg].pid} ELSE remote
           /\ IF destroyThrows(destroyed) \/ ~stored.exists \/ stored.v # q.doc.v
              THEN RespondWith("imgdelete", q.user, q.id, FALSE, 500, "something went wrong", "", 1)
                   /\ UNCHANGED props
              ELSE /\ props' = [props EXCEPT ![q.id] = [stored EXCEPT !.images = mem, !.v = @ + 1]]
                   /\ RespondWith("imgdelete", q.user, q.id, FALSE, 200, "image deleted", "", 1)
    /\ UNCHANGED <<userVars, nextProp, nextPid, contacts, budget>>

(***************************************************************************)
(* Specifications                                                          *)
(***************************************************************************)
InitUsers ==
    /\ rating = [a \in Agents |-> [average |-> RatInt(0), count |-> 0]]
    /\ profile = [u \in Users |-> NewProfile]
    /\ hist = [a \in Agents |-> [vals |-> <<>>, overlap |-> FALSE, lost |-> {}, fetched |-> 0]]
    /\ reqs = [r \in Slots |-> Idle]
    /\ last = NoResponse
    /\ props = [p \in PropIds |-> NoDoc]
    /\ nextProp = 0
    /\ remote = {}
    /\ nextPid = 0
    /\ contacts = 0

Free == {q \in Slots : FreeSlot(q)}

CreateRequest == budget > 0 /\ \E user \in Callers, body \in CreateBodies : Create(user, body)
PutRequest == budget > 0 /\ \E r \in Free, user \in Callers, id \in PropIds, body \in PutBodies :
                  PutBegin(r, user, id, body)
PutSave == \E r \in Slots : PutFinish(r)
DeleteRequest == budget > 0 /\ \E r \in Free, user \in Callers, id \in PropIds : DeleteBegin(r, user, id)
DeleteSave == \E r \in Slots : DeleteFinish(r)
StatusRequest == budget > 0 /\ \E r \in Free, user \in Callers, id \in PropIds, status \in StatusInputs :
                     StatusBegin(r, user, id, status)
StatusSave == \E r \in Slots : StatusFinish(r)
ViewRequest == budget > 0 /\ \E r \in Free, user \in Callers, id \in PropIds : ViewBegin(r, user, id)
ViewSave == \E r \in Slots : ViewFinish(r)
InquiryRequest == budget > 0 /\ \E r \in Free, user \in Callers, id \in PropIds, message \in {"ok", "bad"} :
                      InquiryBegin(r, user, id, message)
InquirySave == \E r \in Slots : InquiryFinish(r)
UploadRequest == budget > 0 /\ \E r \in Free, user \in Callers, id \in PropIds, files \in 0..MaxFiles, badFile \in BOOLEAN :
                     UploadBegin(r, user, id, files, badFile)
UploadCallback == \E r \in Slots, index \in 1..MaxFiles, ok \in BOOLEAN : UploadSettle(r, index, ok)
UploadSave == \E r \in Slots : UploadFinish(r)
ImageUpdateRequest == budget > 0 /\ \E r \in Free, user \in Callers, id \in PropIds, index \in 1..MaxImageIndex, body \in ImageUpdateBodies :
                          ImageUpdateBegin(r, user, id, index, body)
ImageUpdateSave == \E r \in Slots : ImageUpdateFinish(r)
ImageDeleteRequest == budget > 0 /\ \E r \in Free, user \in Callers, id \in PropIds, index \in 1..MaxImageIndex :
                          ImageDeleteBegin(r, user, id, index)
ImageDeleteSave == \E r \in Slots, destroyed \in BOOLEAN : ImageDeleteFinish(r, destroyed)
ContactRequest == budget > 0 /\ \E user \in Callers, fields \in {"ok", "bad"} : ContactCreate(user, fields)
DashboardRequest == budget > 0 /\ \E user \in Callers : Dashboard(user)
RateRequest == budget > 0 /\ \E r \in Free, user \in RateCallers, target \in RateTargets, x \in RatingInputs :
                   RateBegin(r, user, target, x)
RateSave == \E r \in Slots : RateFinish(r)

PropertyRequests ==
    \/ CreateRequest \/ PutRequest \/ PutSave \/ DeleteRequest \/ DeleteSave
    \/ StatusRequest \/ StatusSave \/ ViewRequest \/ ViewSave \/ InquiryRequest \/ InquirySave

ImageRequests ==
    \/ UploadRequest \/ UploadCallback \/ UploadSave \/ ImageUpdateRequest \/ ImageUpdateSave
    \/ ImageDeleteRequest \/ ImageDeleteSave

\* the whole API
Init == InitUsers /\ budget = MaxRequests
Next == PropertyRequests \/ ImageRequests \/ ContactRequest \/ DashboardRequest \/ RateRequest \/ RateSave
Spec == Init /\ [][Next]_vars

\* the rating requests alone
InitRate == InitUsers /\ budget = MaxRateRequests
NextRate == RateRequest \/ RateSave
SpecRate == InitRate /\ [][NextRate]_vars

(***************************************************************************)
(* Rating Aggregator: claims C1 to C4, checked under SpecRate              *)
(***************************************************************************)
Mean(s) == RatDivInt(RatSum(s), Len(s))

\* C1: ratings r1..rn in [1,5] applied one after another, with no two requests
\* overlapping, to an agent that starts at average 0 and count 0 leave
\* rating.count = n and rating.average = the arithmetic mean of r1..rn
\* (average x count = r1 + ... + rn).
C1_SequentialRatingsGiveMean ==
    \A a \in Agents :
        ~hist[a].overlap =>
            /\ rating[a].count = Len(hist[a].vals)
            /\ RatMulInt(rating[a].average, rating[a].count) = RatSum(hist[a].vals)
            /\ (hist[a].vals # <<>> => rating[a].average = Mean(hist[a].vals))

\* three ratings applied in order: 1, 2.5 and 5 give count 3 and average 17/6
C1_Witness ==
    /\ ~hist["a1"].overlap
    /\ hist["a1"].vals = << <<1, 1>>, <<5, 2>>, <<5, 1>> >>
    /\ rating["a1"] = [average |-> <<17, 6>>, count |-> 3]

\* C2: the stored rating.count never takes a value lower than one it held
\* before, in any interleaving of concurrent rate requests.
C2_CountNeverDecreases ==
    [][\A a \in Agents : rating'[a].count >= rating[a].count]_vars

\* C3: rating updates are an unguarded read-modify-write: the save of a rate
\* request stores the count (and the average) computed from the document the
\* request itself read, whatever other requests stored in between, so of two
\* concurrent requests that both succeed one increment is lost.
C3_UnguardedReadModifyWrite ==
    [][\A r \in Slots :
          (reqs[r].op = "rate" /\ reqs'[r].op = "idle") =>
              LET q == reqs[r]
                  mem == updateRating(q.doc, q.arg)
              IN  /\ last'.code = 200
                  /\ rating'[q.id].count = q.doc.count + 1
                  /\ (mem.average # q.doc.average => rating'[q.id].average = mem.average)]_vars

\* two concurrent requests have both been answered 200, the count is 1 and the
\* average is the second rating alone
C3_Witness ==
    /\ hist["a1"].overlap
    /\ Len(hist["a1"].vals) = 2
    /\ hist["a1"].vals[1] # hist["a1"].vals[2]
    /\ \A r \in Slots : reqs[r].op = "idle"
    /\ rating["a1"].count = 1
    /\ rating["a1"].average = hist["a1"].vals[2]

Responded == last'.n # last.n

\* the user is neither the agent of the property nor an admin
Stranger(user, doc) == user # doc.agent /\ role(user) # "admin"

\* C5: in every reachable state every property has at most one image with
\* isPrimary = true.
C5_AtMostOnePrimary ==
    \A p \in PropIds : props[p].exists => Cardinality(Primaries(props[p].images)) <= 1

\* C6: a delete of the primary image that succeeds while other images remain
\* leaves exactly one of the remaining images with isPrimary = true.
C6_DeletePrimaryPromotesOne ==
    [][\A r \in Slots :
          (/\ reqs[r].op = "imgdelete" /\ reqs'[r].op = "idle"
           /\ last'.code = 200
           /\ reqs[r].doc.images[reqs[r].arg].isPrimary
           /\ Len(props'[reqs[r].id].images) > 0)
          => Cardinality(Primaries(props'[reqs[r].id].images)) = 1]_vars

C8_StatusChangesOnlyByExplicitUpdate ==
    [][\A p \in PropIds :
          (props[p].exists /\ props'[p].exists /\ props'[p].status # props[p].status)
          => \E r \in Slots :
                /\ reqs[r].op \in {"status", "put"} /\ reqs[r].id = p /\ reqs'[r].op = "idle"
                /\ ~Stranger(reqs[r].user, props[p])
                /\ last'.code = 200
                /\ props'[p].status = IF reqs[r].op = "status" THEN reqs[r].arg ELSE reqs[r].arg.status]_vars

\* an explicit update has changed the status of a property
C8_Witness ==
    /\ last.op \in {"status", "put"} /\ last.code = 200 /\ last.was # ""
    /\ props[last.id].exists /\ props[last.id].status # last.was

OwnerOps == {"put", "delete", "status", "upload", "imgupdate", "imgdelete"}

\* the request answered in this step was an owner-only request on an existing
\* property, sent by an authenticated user who is neither its agent nor an admin
ByStranger ==
    /\ Responded /\ last'.op \in OwnerOps /\ last'.user \in Users
    /\ props[last'.id].exists /\ Stranger(last'.user, props[last'.id])

WriteOps == {"create", "put", "status", "rate", "inquiry", "contact"}

\* C10: a write request with malformed or out-of-range input, from a caller who
\* is allowed to send it for a resource that exists, is answered 400 and
\* creates or modifies no stored document.
C10_BadInputGets400 ==
    [][(Responded /\ last'.op \in WriteOps /\ last'.bad /\ last'.code \notin {401, 403, 404})
       => /\ last'.code = 400
          /\ props' = props /\ rating' = rating /\ contacts' = contacts]_vars

(***************************************************************************)
(* Authentication middleware: protect and optionalAuth                     *)
(* (src/middleware/auth.js lines 5 to 133).  The handlers above take the    *)
(* outcome of protect as their caller: Anon when it answers 401.            *)
(***************************************************************************)
MaxAuthRequests == 1    \* requests sent in the authentication specification

Undefined == "undefined"
Accounts == Users \cup {"off"}               \* "off" is stored with isActive = false
\* a JWT: whose id it carries and whether jwt.verify accepts it
NoToken == [sig |-> Undefined, id |-> Undefined]
Tokens == {[sig |-> "good", id |-> i] : i \in {"a1", "off", "ghost"}}
              \cup {[sig |-> "forged", id |-> "a1"], [sig |-> "expired", id |-> "a1"]}
\* the Authorization header: absent, "Bearer <token>", "Bearer" alone, "Basic <token>"
Authorizations ==
    {[scheme |-> "absent", token |-> NoToken], [scheme |-> "Bearer", token |-> NoToken]}
        \cup [scheme : {"Bearer", "Basic"}, token : Tokens]
\* the token cookie of the request: none or a token
CookieTokens == {NoToken} \cup Tokens

\* req.cookies: server.js mounts no cookie parser, so it is undefined whatever
\* Cookie header the request carries
cookies(req) == [defined |-> FALSE, token |-> NoToken]

\* the token both middlewares pick: the bearer header first, else the cookie
extractToken(req) ==
    IF req.authorization.scheme = "Bearer" THEN req.authorization.token
    ELSE IF cookies(req).defined /\ cookies(req).token # NoToken THEN cookies(req).token
    ELSE NoToken

\* jwt.verify(token, secret): the decoded id, or it throws
jwtVerify(token) == IF token.sig = "good" THEN [ok |-> TRUE, id |-> token.id]
                    ELSE [ok |-> FALSE, id |-> Undefined]
\* User.findById
findById(id) == IF id \in Accounts THEN id ELSE "null"

Unauthorized(msg) == [code |-> 401, msg |-> msg, user |-> Undefined, next |-> 0]
Proceed(user) == [code |-> 0, msg |-> "next", user |-> user, next |-> 1]

protect_noActiveCheck(req) ==
    LET token == extractToken(req)
        decoded == jwtVerify(token)
    IN  IF token = NoToken THEN Unauthorized("no token provided")
        ELSE IF ~decoded.ok THEN Unauthorized("invalid token")
        ELSE IF findById(decoded.id) = "null" THEN Unauthorized("user not found")
        ELSE Proceed(decoded.id)

protect(req) ==
    LET token == extractToken(req)
        decoded == jwtVerify(token)
    IN  IF token = NoToken THEN Unauthorized("no token provided")
        ELSE IF ~decoded.ok THEN Unauthorized("invalid token")
        ELSE IF findById(decoded.id) = "null" THEN Unauthorized("user not found")
        ELSE IF ~isActive(findById(decoded.id)) THEN Unauthorized("account is deactivated")
        ELSE Proceed(decoded.id)

optionalAuth(req) ==
    LET token == extractToken(req)
        decoded == jwtVerify(token)
    IN  IF token # NoToken /\ decoded.ok /\ findById(decoded.id) # "null" /\ isActive(findById(decoded.id))
        THEN Proceed(decoded.id)
        ELSE Proceed(Undefined)

AuthRequests == [op : {"protect", "optionalAuth"}, authorization : Authorizations, cookie : CookieTokens,
                 user : {Undefined}, nexts : {0}, pc : {"start"}]

\* a request reaches a route guarded by one of the middlewares
AuthReceive ==
    /\ budget > 0
    /\ budget' = budget - 1
    /\ IF reqs[1].op = "idle" THEN TRUE ELSE reqs[1].pc = "done"
    /\ \E req \in AuthRequests : reqs' = [reqs EXCEPT ![1] = req]
    /\ UNCHANGED <<userVars, propVars, contacts, last>>

\* the middleware runs: it answers, or sets req.user and calls next()
Middleware(op, o) ==
    /\ reqs[1].op = op /\ reqs[1].pc = "start"
    /\ reqs' = [reqs EXCEPT ![1].user = o.user, ![1].nexts = @ + o.next,
                            ![1].pc = IF o.next > 0 THEN "handler" ELSE "done"]
    /\ IF o.code # 0 THEN Respond(op, Anon, 0, FALSE, o.code, o.msg) ELSE last' = last
    /\ UNCHANGED <<userVars, propVars, contacts, budget>>

Protect == reqs[1].op = "protect" /\ Middleware("protect", protect(reqs[1]))
OptionalAuth == reqs[1].op = "optionalAuth" /\ Middleware("optionalAuth", optionalAuth(reqs[1]))

\* the handler behind the middleware runs when next() was called
Handler ==
    /\ reqs[1].op \in {"protect", "optionalAuth"} /\ reqs[1].pc = "handler"
    /\ reqs' = [reqs EXCEPT ![1].pc = "done"]
    /\ Respond(reqs[1].op, IF reqs[1].user = Undefined THEN Anon ELSE reqs[1].user, 0, FALSE, 200, "handled")
    /\ UNCHANGED <<userVars, propVars, contacts, budget>>

InitAuth == InitUsers /\ budget = MaxAuthRequests
NextAuth == AuthReceive \/ Protect \/ OptionalAuth \/ Handler
SpecAuth == InitAuth /\ [][NextAuth]_vars

(***************************************************************************)
(* Authentication: claims C11 and C12, checked under SpecAuth              *)
(***************************************************************************)
\* the token a request supplies: in the bearer header, else in the cookie
SuppliedToken(req) == IF req.authorization.scheme = "Bearer" THEN req.authorization.token ELSE req.cookie
\* the token verifies and names a stored, active user
Authentic(token) == token.sig = "good" /\ token.id \in Users

\* C11: a handler behind protect runs only when a token is supplied, it
\* verifies and names a stored, active user, and then req.user is that user;
\* in every other case protect answers 401 and the handler is not run.
C11_ProtectAdmitsOnlyAuthentic ==
    (reqs[1].op = "protect" /\ reqs[1].pc # "start")
    => /\ reqs[1].nexts \in {0, 1}
       /\ reqs[1].nexts = 1
             => /\ Authentic(SuppliedToken(reqs[1]))
                /\ reqs[1].user = SuppliedToken(reqs[1]).id
                /\ reqs[1].pc = "done" => (last.op = "protect" /\ last.code = 200 /\ last.user = reqs[1].user)
       /\ ~Authentic(SuppliedToken(reqs[1])) => reqs[1].nexts = 0
       /\ reqs[1].nexts = 0
             => /\ reqs[1].pc = "done" /\ reqs[1].user = Undefined
                /\ last.op = "protect" /\ last.code = 401

\* the handler behind protect ran for agent a1, who sent a good bearer token
C11_Witness ==
    /\ reqs[1].op = "protect" /\ reqs[1].pc = "done" /\ reqs[1].nexts = 1
    /\ reqs[1].user = "a1" /\ last.code = 200

\* C12: optionalAuth never rejects: for every input it calls next() exactly
\* once, and req.user is set if and only if the supplied token verifies and
\* names a stored, active user.
C12_OptionalAuthSetsUserIffAuthentic ==
    (reqs[1].op = "optionalAuth" /\ reqs[1].pc # "start")
    => /\ reqs[1].nexts = 1
       /\ last.code # 401
       /\ reqs[1].user # Undefined <=> Authentic(SuppliedToken(reqs[1]))
       /\ reqs[1].user # Undefined => reqs[1].user = SuppliedToken(reqs[1]).id

(***************************************************************************)
(* Query strings.  A query string value is a JavaScript string, modelled    *)
(* as a sequence of one-character strings (words of an enumeration are one  *)
(* symbol); req.query is a function from the keys the URL carries to their  *)
(* values, so a key that is absent is outside its DOMAIN.                   *)
(***************************************************************************)
Digits == <<"0", "1", "2", "3", "4", "5", "6", "7", "8", "9">>
isDigit(c) == \E i \in 1..10 : Digits[i] = c
digitVal(c) == (CHOOSE i \in 1..10 : Digits[i] = c) - 1
isSign(c) == c \in {"+", "-"}

RECURSIVE digitPrefix(_)
\* how many digits a string starts with
digitPrefix(s) == IF s # <<>> /\ isDigit(Head(s)) THEN 1 + digitPrefix(Tail(s)) ELSE 0

RECURSIVE digitsValue(_)
\* the number a string of digits writes
digitsValue(s) == IF s = <<>> THEN 0 ELSE 10 * digitsValue(SubSeq(s, 1, Len(s) - 1)) + digitVal(s[Len(s)])

RECURSIVE Pow10(_)
Pow10(k) == IF k = 0 THEN 1 ELSE 10 * Pow10(k - 1)

NaN == [nan |-> TRUE, n |-> 0]
Num(n) == [nan |-> FALSE, n |-> n]
Drop(s, k) == SubSeq(s, k + 1, Len(s))

\* req.query[key]: undefined when the URL does not carry the key
has(query, key) == key \in DOMAIN query
\* if (req.query[key]): the key is present and its value is not the empty string
truthy(query, key) == has(query, key) /\ query[key] # <<>>

\* parseInt(string): an optional sign and the longest prefix of digits; NaN
\* when there is no digit (or the value is undefined)
parseIntStr(s) ==
    LET body == IF s # <<>> /\ isSign(Head(s)) THEN Tail(s) ELSE s
        k == digitPrefix(body)
        neg == s # <<>> /\ Head(s) = "-"
    IN  IF k = 0 THEN NaN
        ELSE Num((IF neg THEN -1 ELSE 1) * digitsValue(SubSeq(body, 1, k)))
parseInt(query, key) == IF has(query, key) THEN parseIntStr(query[key]) ELSE NaN

\* parseInt(x) || d
orDefault(x, d) == IF x.nan \/ x.n = 0 THEN d ELSE x.n

\* parseFloat(string) as an exact fraction: sign, digits, optional "." digits
parseFloatStr(s) ==
    LET body == IF s # <<>> /\ isSign(Head(s)) THEN Tail(s) ELSE s
        k == digitPrefix(body)
        rest == Drop(body, k)
        f == IF rest # <<>> /\ Head(rest) = "." THEN digitPrefix(Tail(rest)) ELSE 0
        neg == s # <<>> /\ Head(s) = "-"
        mag == Norm(digitsValue(SubSeq(body, 1, k)) * Pow10(f) + digitsValue(SubSeq(rest, 2, f + 1)), Pow10(f))
    IN  IF k = 0 /\ f = 0 THEN [nan |-> TRUE, q |-> RatInt(0)]
        ELSE [nan |-> FALSE, q |-> IF neg THEN <<-mag[1], mag[2]>> ELSE mag]

\* validator isInt({min, max}): the whole string is a signed integer within the range
isInt(s, min, max) ==
    LET body == IF s # <<>> /\ isSign(Head(s)) THEN Tail(s) ELSE s
    IN  /\ body # <<>> /\ digitPrefix(body) = Len(body)
        /\ parseIntStr(s).n >= min /\ parseIntStr(s).n <= max

\* validator isFloat({min}): the whole string is a decimal number, at least min
isFloat(s, min) ==
    LET body == IF s # <<>> /\ isSign(Head(s)) THEN Tail(s) ELSE s
        k == digitPrefix(body)
        rest == Drop(body, k)
        f == IF rest # <<>> /\ Head(rest) = "." THEN digitPrefix(Tail(rest)) ELSE 0
    IN  /\ k + f > 0
        /\ rest = <<>> \/ (Head(rest) = "." /\ Len(rest) = f + 1)
        /\ RatLeq(RatInt(min), parseFloatStr(s).q)

Lower == [c \in {"D", "M", "N"} |-> IF c = "D" THEN "d" ELSE IF c = "M" THEN "m" ELSE "n"]
toLower(c) == IF c \in DOMAIN Lower THEN Lower[c] ELSE c
lowerCase(s) == [i \in 1..Len(s) |-> toLower(s[i])]

\* new RegExp(pattern, 'i'): the constructor throws on an unbalanced "("
regExpThrows(pattern) == \E i \in 1..Len(pattern) : pattern[i] = "("
\* regex.test(text) for a pattern of literal characters, ignoring case: the
\* pattern occurs somewhere in the text
regExpTest(pattern, text) ==
    \E i \in 0..(Len(text) - Len(pattern)) :
        SubSeq(lowerCase(text), i + 1, i + Len(pattern)) = lowerCase(pattern)

(***************************************************************************)
(* Queries on a collection: Model.find(filter).sort(sort).skip(n).limit(n)  *)
(* and Model.countDocuments(filter).  A document is a function from its    *)
(* paths to their values; a filter is a function from the paths it          *)
(* constrains to a condition.                                               *)
(***************************************************************************)
Eq(v) == [kind |-> "eq", v |-> v]                       \* { path: v }
Regex(pattern) == [kind |-> "regex", v |-> pattern]     \* { path: new RegExp(pattern, 'i') }
Cmp(bounds) == [kind |-> "cmp", v |-> bounds]           \* { path: { $gte: a, $lte: b } }, bounds are fractions
AnyOf(paths, pattern) == [kind |-> "or", v |-> pattern, paths |-> paths]   \* { $or: [{ path: regex }, ...] }

\* f with key k set to v
Put(f, k, v) == [x \in DOMAIN f \cup {k} |-> IF x = k THEN v ELSE f[x]]
Empty == [x \in {} |-> 0]

satisfies(doc, path, c) ==
    CASE c.kind = "eq" -> doc[path] = c.v
      [] c.kind = "regex" -> regExpTest(c.v, doc[path])
      [] c.kind = "cmp" -> /\ "$gte" \in DOMAIN c.v => RatLeq(c.v["$gte"], RatInt(doc[path]))
                           /\ "$lte" \in DOMAIN c.v => RatLeq(RatInt(doc[path]), c.v["$lte"])
      [] c.kind = "or" -> \E q \in c.paths : regExpTest(c.v, doc[q])

matches(doc, filter) == \A path \in DOMAIN filter : satisfies(doc, path, filter[path])

\* a find that ignores its filter
matching_all(coll, filter) == 1..Len(coll)

\* the positions of the documents of a collection that match the filter
matching(coll, filter) == {i \in 1..Len(coll) : matches(coll[i], filter)}
countDocuments(coll, filter) == Cardinality(matching(coll, filter))

\* the value a document is ordered by: booleans order false < true
sortValue(doc, path) == IF path = "featured" THEN (IF doc[path] THEN 1 ELSE 0) ELSE doc[path]

RECURSIVE precedes(_, _, _)
\* a may come before b under the sort specification, a sequence of <<path, direction>>
precedes(a, b, sort) ==
    IF sort = <<>> THEN TRUE
    ELSE LET x == sortValue(a, sort[1][1]) * sort[1][2]
             y == sortValue(b, sort[1][1]) * sort[1][2]
         IN  x < y \/ (x = y /\ precedes(a, b, Tail(sort)))

\* the orders in which the matching documents may come back: every sequence of
\* all of them that respects the sort (ties come in any order)
sorted(coll, filter, sort) ==
    LET m == matching(coll, filter)
        n == Cardinality(m)
    IN  {o \in [1..n -> m] :
            /\ \A i, j \in 1..n : i # j => o[i] # o[j]
            /\ \A i \in 1..(n - 1) : precedes(coll[o[i]], coll[o[i + 1]], sort)}

Min(a, b) == IF a < b THEN a ELSE b
\* .skip(skip).limit(limit) of an ordered result
slice(o, skip, limit) == SubSeq(o, skip + 1, Min(Len(o), skip + limit))

\* Math.floor in the place of Math.ceil
ceilDiv_floor(total, limit) == total \div limit

\* Math.ceil(total / limit) for integers total >= 0, limit > 0
ceilDiv(total, limit) == IF total % limit = 0 THEN total \div limit ELSE total \div limit + 1

(***************************************************************************)
(* GET /api/properties: validation, Filter Builder, Sort Resolver, Pager    *)
(***************************************************************************)
MaxDocs == 4            \* documents in the listed collection

NoMax == 2147483647     \* isInt without a max option
Delhi == <<"D", "e", "l", "h", "i">>
Mumbai == <<"M", "u", "m", "b", "a", "i">>
Word(w) == <<w>>        \* a word of an enumeration, as a one-symbol string

\* the i-th property ever created (createdAt = i), as the list queries see it
Listing(i) ==
    [path \in {"status", "agent", "type", "listingType", "address.city", "address.state",
               "specifications.bedrooms", "specifications.bathrooms", "price.amount",
               "title", "description", "featured", "createdAt", "views",
               "specifications.area.value"} |->
        CASE path = "status" -> IF i % 3 = 0 THEN Word("draft") ELSE Word("active")
          [] path = "agent" -> IF i % 2 = 0 THEN Word("a2") ELSE Word("a1")
          [] path = "type" -> IF i = 1 THEN Word("land") ELSE Word("house")
          [] path = "listingType" -> Word("sale")
          [] path = "address.city" -> IF i % 4 = 0 THEN Mumbai ELSE Delhi
          [] path = "address.state" -> Delhi
          [] path = "specifications.bedrooms" -> 2
          [] path = "specifications.bathrooms" -> 2
          [] path = "price.amount" -> IF i % 2 = 0 THEN 1 ELSE 3
          [] path = "title" -> <<"N", "e", "w">>
          [] path = "description" -> <<"N", "e", "w">>
          [] path = "featured" -> i % 3 # 1
          [] path = "createdAt" -> i
          [] path = "views" -> (i * 2) % 3
          [] path = "specifications.area.value" -> 5 - i]

\* the Property collection after n creations, in insertion order
Collections == {[i \in 1..n |-> Listing(i)] : n \in 0..MaxDocs}

PropertyTypes == {Word(w) : w \in {"apartment", "house", "condo", "townhouse", "land", "commercial", "office", "warehouse"}}
ListingTypes == {Word(w) : w \in {"sale", "rent", "lease"}}
PropertySortKeys == {Word(w) : w \in {"price", "createdAt", "views", "area"}}
SortOrders == {Word("asc"), Word("desc")}

\* query(key).optional().<check>: an absent key passes
optional(query, key, ok) == has(query, key) => ok

\* the express-validator chain of GET /api/properties
listValid(query) ==
    /\ optional(query, "page", isInt(query["page"], 1, NoMax))
    /\ optional(query, "limit", isInt(query["limit"], 1, 50))
    /\ optional(query, "type", query["type"] \in PropertyTypes)
    /\ optional(query, "listingType", query["listingType"] \in ListingTypes)
    /\ optional(query, "minPrice", isFloat(query["minPrice"], 0))
    /\ optional(query, "maxPrice", isFloat(query["maxPrice"], 0))
    /\ optional(query, "bedrooms", isInt(query["bedrooms"], 0, NoMax))
    /\ optional(query, "bathrooms", isInt(query["bathrooms"], 0, NoMax))
    /\ optional(query, "sortBy", query["sortBy"] \in PropertySortKeys)
    /\ optional(query, "sortOrder", query["sortOrder"] \in SortOrders)

\* if (req.query[key]) filter[path] = c
when(query, key, filter, path, c) == IF truthy(query, key) THEN Put(filter, path, c) ELSE filter

\* the price bounds of the filter: only the supplied ones
priceBounds(query) ==
    LET lo == IF truthy(query, "minPrice") THEN Put(Empty, "$gte", parseFloatStr(query["minPrice"]).q) ELSE Empty
    IN  IF truthy(query, "maxPrice") THEN Put(lo, "$lte", parseFloatStr(query["maxPrice"]).q) ELSE lo

SearchPaths == {"title", "description", "address.city", "address.state"}

\* Filter Builder of the public list
listFilter_emptyPrice(query) ==
    LET f0 == Put(Empty, "status", Eq(Word("active")))
        f1 == when(query, "type", f0, "type", Eq(query["type"]))
        f2 == when(query, "listingType", f1, "listingType", Eq(query["listingType"]))
        f3 == when(query, "city", f2, "address.city", Regex(query["city"]))
        f4 == when(query, "state", f3, "address.state", Regex(query["state"]))
        f5 == when(query, "bedrooms", f4, "specifications.bedrooms", Cmp(Put(Empty, "$gte", RatInt(parseIntStr(query["bedrooms"]).n))))
        f6 == when(query, "bathrooms", f5, "specifications.bathrooms", Cmp(Put(Empty, "$gte", RatInt(parseIntStr(query["bathrooms"]).n))))
        f7 == Put(f6, "price.amount", Cmp(priceBounds(query)))
    IN  when(query, "search", f7, "$or", AnyOf(SearchPaths, query["search"]))

listFilter(query) ==
    LET f0 == Put(Empty, "status", Eq(Word("active")))
        f1 == when(query, "type", f0, "type", Eq(query["type"]))
        f2 == when(query, "listingType", f1, "listingType", Eq(query["listingType"]))
        f3 == when(query, "city", f2, "address.city", Regex(query["city"]))
        f4 == when(query, "state", f3, "address.state", Regex(query["state"]))
        f5 == when(query, "bedrooms", f4, "specifications.bedrooms", Cmp(Put(Empty, "$gte", RatInt(parseIntStr(query["bedrooms"]).n))))
        f6 == when(query, "bathrooms", f5, "specifications.bathrooms", Cmp(Put(Empty, "$gte", RatInt(parseIntStr(query["bathrooms"]).n))))
        f7 == IF truthy(query, "minPrice") \/ truthy(query, "maxPrice")
              THEN Put(f6, "price.amount", Cmp(priceBounds(query))) ELSE f6
    IN  when(query, "search", f7, "$or", AnyOf(SearchPaths, query["search"]))

\* new RegExp(...) throws for one of the patterns the filter is built from
filterThrows(query, keys) == \E key \in keys : truthy(query, key) /\ regExpThrows(query[key])

\* req.query.sortOrder === 'asc' ? 1 : -1
sortOrder(query) == IF has(query, "sortOrder") /\ query["sortOrder"] = Word("asc") THEN 1 ELSE -1

\* Sort Resolver of the public list
listSort_ascending(query) ==
    IF truthy(query, "sortBy")
    THEN IF query["sortBy"] = Word("price") THEN << <<"price.amount", 1>> >>
         ELSE IF query["sortBy"] = Word("area") THEN << <<"specifications.area.value", 1>> >>
         ELSE << <<query["sortBy"][1], 1>> >>
    ELSE << <<"featured", -1>>, <<"createdAt", -1>> >>

listSort(query) ==
    IF truthy(query, "sortBy")
    THEN IF query["sortBy"] = Word("price") THEN << <<"price.amount", sortOrder(query)>> >>
         ELSE IF query["sortBy"] = Word("area") THEN << <<"specifications.area.value", sortOrder(query)>> >>
         ELSE << <<query["sortBy"][1], sortOrder(query)>> >>
    ELSE << <<"featured", -1>>, <<"createdAt", -1>> >>

\* Pager: page, limit and skip of the paginated handlers
pager_skipPage(query) ==
    LET page == orDefault(parseInt(query, "page"), 1)
        limit == orDefault(parseInt(query, "limit"), 10)
    IN  [page |-> page, limit |-> limit, skip |-> page * limit]

pager(query) ==
    LET page == orDefault(parseInt(query, "page"), 1)
        limit == orDefault(parseInt(query, "limit"), 10)
    IN  [page |-> page, limit |-> limit, skip |-> (page - 1) * limit]

(***************************************************************************)
(* The other list endpoints: my-properties, featured, agents, top agents,   *)
(* an agent's properties, contact submissions                               *)
(***************************************************************************)
\* the stored users, as the agent queries see them
AgentDoc(i) ==
    [path \in {"id", "isAgent", "isActive", "agentProfile.isVerified", "agentProfile.specialization",
               "agentProfile.address.city", "agentProfile.rating.average", "agentProfile.rating.count",
               "agentProfile.totalTransactions", "agentProfile.experience", "name", "createdAt"} |->
        CASE path = "id" -> IF i = 1 THEN Word("a1") ELSE IF i = 2 THEN Word("a2") ELSE Word("usr")
          [] path = "isAgent" -> i < 3
          [] path = "isActive" -> TRUE
          [] path = "agentProfile.isVerified" -> TRUE
          [] path = "agentProfile.specialization" -> IF i = 1 THEN Word("land") ELSE Word("luxury")
          [] path = "agentProfile.address.city" -> IF i = 1 THEN Delhi ELSE Mumbai
          [] path = "agentProfile.rating.average" -> IF i = 1 THEN 5 ELSE IF i = 2 THEN 4 ELSE 0
          [] path = "agentProfile.rating.count" -> IF i = 1 THEN 2 ELSE IF i = 2 THEN 1 ELSE 0
          [] path = "agentProfile.totalTransactions" -> i
          [] path = "agentProfile.experience" -> 4 - i
          [] path = "name" -> IF i = 1 THEN <<"D", "e", "v">> ELSE <<"M", "e", "g">>
          [] path = "createdAt" -> i]
AgentDocs == [i \in 1..3 |-> AgentDoc(i)]

\* the stored contact submissions
ContactDoc(i) ==
    [path \in {"status", "type", "priority", "name", "email", "subject", "createdAt"} |->
        CASE path = "status" -> IF i = 1 THEN Word("new") ELSE Word("closed")
          [] path = "type" -> Word("general")
          [] path = "priority" -> IF i = 3 THEN Word("high") ELSE Word("low")
          [] path = "name" -> <<"D", "e", "v">>
          [] path = "email" -> <<"d", "e", "v">>
          [] path = "subject" -> Delhi
          [] path = "createdAt" -> i]
ContactDocs == [i \in 1..3 |-> ContactDoc(i)]

Specializations == {Word(w) : w \in {"residential", "commercial", "land", "luxury", "rental"}}
AgentSortKeys == {Word(w) : w \in {"rating", "experience", "transactions", "createdAt"}}
StatusWords == {Word(w) : w \in Statuses}
ContactStatuses == {Word(w) : w \in {"new", "in_progress", "resolved", "closed"}}
ContactTypes == {Word(w) : w \in {"general", "property_inquiry", "agent_inquiry", "support", "partnership"}}
Priorities == {Word(w) : w \in {"low", "medium", "high"}}

Endpoints == {"list", "mine", "featured", "agents", "top", "agentprops", "contacts"}
\* the endpoints that validate page and limit
Validated == {"list", "agents", "agentprops", "contacts"}
\* the endpoints that answer with page, total and pages
Paged == {"list", "mine", "agents", "agentprops", "contacts"}

\* protect / requireAgent / authorize('admin') in front of the handler: 0 when
\* the request gets through
epAuth(ep, user) ==
    IF ep = "mine" THEN (IF user = Anon THEN 401 ELSE IF ~isAgent(user) THEN 403 ELSE 0)
    ELSE IF ep = "contacts" THEN (IF user = Anon THEN 401 ELSE IF role(user) # "admin" THEN 403 ELSE 0)
    ELSE 0

pageValid(query) ==
    /\ optional(query, "page", isInt(query["page"], 1, NoMax))
    /\ optional(query, "limit", isInt(query["limit"], 1, 50))

\* validationResult(req).isEmpty(); my-properties, featured and top have no chain
epValid(ep, query) ==
    CASE ep = "list" -> listValid(query)
      [] ep = "agents" ->
            /\ pageValid(query)
            /\ optional(query, "specialization", query["specialization"] \in Specializations)
            /\ optional(query, "minRating", isFloat(query["minRating"], 0)
                                            /\ RatLeq(parseFloatStr(query["minRating"]).q, RatInt(5)))
            /\ optional(query, "sortBy", query["sortBy"] \in AgentSortKeys)
            /\ optional(query, "sortOrder", query["sortOrder"] \in SortOrders)
      [] ep = "agentprops" ->
            /\ pageValid(query)
            /\ optional(query, "status", query["status"] \in StatusWords)
      [] ep = "contacts" ->
            /\ pageValid(query)
            /\ optional(query, "status", query["status"] \in ContactStatuses)
            /\ optional(query, "type", query["type"] \in ContactTypes)
            /\ optional(query, "priority", query["priority"] \in Priorities)
      [] OTHER -> TRUE

epThrows(ep, query) ==
    CASE ep = "list" -> filterThrows(query, {"city", "state", "search"})
      [] ep = "agents" -> filterThrows(query, {"city", "search"})
      [] ep = "contacts" -> filterThrows(query, {"search"})
      [] OTHER -> FALSE

\* { isAgent: true, isActive: true, 'agentProfile.isVerified': true }
verifiedAgents == Put(Put(Put(Empty, "isAgent", Eq(TRUE)), "isActive", Eq(TRUE)), "agentProfile.isVerified", Eq(TRUE))

mineFilter_anyAgent(user, query) == when(query, "status", Empty, "status", Eq(query["status"]))

\* Filter Builder of my-properties
mineFilter(user, query) ==
    when(query, "status", Put(Empty, "agent", Eq(Word(user))), "status", Eq(query["status"]))

agentPropsFilter_anyCaller(user, id, query) ==
    when(query, "status", Put(Empty, "agent", Eq(Word(id))), "status", Eq(query["status"]))

\* Filter Builder of an agent's properties: only active ones for non-owners
agentPropsFilter(user, id, query) ==
    LET f0 == Put(Empty, "agent", Eq(Word(id)))
    IN  IF user = Anon \/ user # id THEN Put(f0, "status", Eq(Word("active")))
        ELSE when(query, "status", f0, "status", Eq(query["status"]))

\* the filter of each endpoint; id is the :id of an agent's properties
epFilter(ep, user, id, query) ==
    CASE ep = "list" -> listFilter(query)
      [] ep = "mine" -> mineFilter(user, query)
      [] ep = "featured" -> Put(Put(Empty, "status", Eq(Word("active"))), "featured", Eq(TRUE))
      [] ep = "agents" ->
            LET f1 == when(query, "specialization", verifiedAgents, "agentProfile.specialization", Eq(query["specialization"]))
                f2 == when(query, "city", f1, "agentProfile.address.city", Regex(query["city"]))
                f3 == when(query, "minRating", f2, "agentProfile.rating.average",
                           Cmp(Put(Empty, "$gte", parseFloatStr(query["minRating"]).q)))
            IN  when(query, "search", f3, "name", Regex(query["search"]))
      [] ep = "top" -> Put(verifiedAgents, "agentProfile.rating.count", Cmp(Put(Empty, "$gte", RatInt(1))))
      [] ep = "agentprops" -> agentPropsFilter(user, id, query)
      [] ep = "contacts" ->
            LET f1 == when(query, "status", Empty, "status", Eq(query["status"]))
                f2 == when(query, "type", f1, "type", Eq(query["type"]))
                f3 == when(query, "priority", f2, "priority", Eq(query["priority"]))
            IN  when(query, "search", f3, "$or", AnyOf({"name", "email", "subject"}, query["search"]))

AgentDefaultSort == << <<"agentProfile.rating.average", -1>>, <<"agentProfile.totalTransactions", -1>> >>

\* Sort Resolver of the agent list
agentSort(query) ==
    IF truthy(query, "sortBy")
    THEN IF query["sortBy"] = Word("rating") THEN << <<"agentProfile.rating.average", sortOrder(query)>> >>
         ELSE IF query["sortBy"] = Word("experience") THEN << <<"agentProfile.experience", sortOrder(query)>> >>
         ELSE IF query["sortBy"] = Word("transactions") THEN << <<"agentProfile.totalTransactions", sortOrder(query)>> >>
         ELSE << <<query["sortBy"][1], sortOrder(query)>> >>
    ELSE AgentDefaultSort

epSort(ep, query) ==
    CASE ep = "list" -> listSort(query)
      [] ep = "agents" -> agentSort(query)
      [] ep = "top" -> AgentDefaultSort
      [] OTHER -> << <<"createdAt", -1>> >>

\* page, limit and skip; featured and top only take a limit (default 6)
epPager(ep, query) ==
    IF ep \in Paged THEN pager(query)
    ELSE [page |-> 1, limit |-> orDefault(parseInt(query, "limit"), 6), skip |-> 0]

(***************************************************************************)
(* The list requests                                                       *)
(***************************************************************************)
Missing == Word(Undefined)      \* marks a key the URL does not carry
\* req.query for a choice of values: the keys that are not Missing
QueryOf(choice) == [k \in {k \in DOMAIN choice : choice[k] # Missing} |-> choice[k]]

Del == <<"d", "e", "l">>
PageTexts == {Missing, <<"0">>, <<"1">>, <<"2">>, <<"3">>}
LimitTexts == {Missing, <<"0">>, <<"1">>, <<"2">>, <<"5", "0">>, <<"5", "1">>}

\* every subset of the filter parameters of the public list, each with one value
FilterChoices ==
    [type : {Missing, Word("house")}, listingType : {Missing, Word("sale")},
     city : {Missing, Del}, state : {Missing, Del},
     bedrooms : {Missing, <<"2">>}, bathrooms : {Missing, <<"2">>},
     minPrice : {Missing, <<"2">>}, maxPrice : {Missing, <<"2", ".", "5">>},
     search : {Missing, Del}]
\* empty, malformed and out-of-range values, one parameter at a time
OddChoices ==
    [city : {<<>>, <<"(">>, <<"m">>}] \cup [state : {<<>>}] \cup [search : {<<>>, <<"(">>}]
        \cup [type : {<<>>, Word("castle")}] \cup [minPrice : {<<>>, <<"-", "1">>, <<"0">>}]
        \cup [bedrooms : {<<"0">>, <<"3">>, <<"2", ".", "5">>}] \cup [status : {Word("draft")}]
\* page, limit and sort parameters
PagerChoices ==
    [page : PageTexts, limit : LimitTexts,
     sortBy : {Missing, <<>>, Word("bogus")} \cup PropertySortKeys, sortOrder : {Missing, Word("up")} \cup SortOrders]

Queries(ep) ==
    CASE ep = "list" -> {QueryOf(c) : c \in FilterChoices \cup OddChoices \cup PagerChoices}
      [] ep = "mine" -> {QueryOf(c) : c \in [page : PageTexts, limit : LimitTexts,
                                             status : {Missing, <<>>, Word("active"), Word("draft"), Word("bogus")}]}
      [] ep = "featured" -> {QueryOf(c) : c \in [limit : LimitTexts]}
      [] ep = "top" -> {QueryOf(c) : c \in [limit : LimitTexts]}
      [] ep = "agents" ->
            {QueryOf(c) : c \in [page : {Missing, <<"0">>, <<"2">>}, limit : {Missing, <<"1">>, <<"5", "1">>},
                                 sortBy : {Missing, Word("bogus")} \cup AgentSortKeys,
                                 sortOrder : {Missing, Word("asc"), Word("desc")},
                                 specialization : {Missing, Word("luxury")},
                                 minRating : {Missing, <<"4", ".", "5">>, <<"6">>},
                                 city : {Missing, Del}, search : {Missing, <<"d", "e">>}]}
      [] ep = "agentprops" ->
            {QueryOf(c) : c \in [page : {Missing, <<"0">>, <<"2">>}, limit : {Missing, <<"1">>, <<"5", "1">>},
                                 status : {Missing, Word("draft"), Word("bogus")}]}
      [] ep = "contacts" ->
            {QueryOf(c) : c \in [page : {Missing, <<"0">>, <<"2">>}, limit : {Missing, <<"1">>, <<"5", "1">>},
                                 status : {Missing, Word("new"), Word("bogus")},
                                 priority : {Missing, Word("low")},
                                 search : {Missing, <<"d", "e">>, <<"(">>}]}

\* the collection an endpoint reads
epColl(ep) == IF ep \in {"agents", "top"} THEN AgentDocs ELSE IF ep = "contacts" THEN ContactDocs ELSE props

NoItems == <<>>
ListReq(ep, user, id, query) ==
    [op |-> ep, user |-> user, id |-> id, query |-> query, pc |-> "done", code |-> 0,
     filter |-> Empty, sort |-> <<>>, page |-> 0, limit |-> 0, skip |-> 0,
     items |-> NoItems, total |-> 0, pages |-> 0, raced |-> FALSE]

\* the handler up to its find: middleware, validation, filter, sort, pager and
\* the page of documents; featured and top answer at once
ListBegin(ep, user, id, query) ==
    LET req == ListReq(ep, user, id, query)
        auth == epAuth(ep, user)
        f == epFilter(ep, user, id, query)
        st == epSort(ep, query)
        pg == epPager(ep, query)
        coll == epColl(ep)
    IN  IF auth # 0 THEN reqs' = [reqs EXCEPT ![1] = [req EXCEPT !.code = auth]]
        ELSE IF ~epValid(ep, query) THEN reqs' = [reqs EXCEPT ![1] = [req EXCEPT !.code = 400]]
        ELSE IF epThrows(ep, query) THEN reqs' = [reqs EXCEPT ![1] = [req EXCEPT !.code = 500]]
        ELSE \E o \in sorted(coll, f, st) :
                LET page == slice(o, pg.skip, pg.limit)
                IN  reqs' = [reqs EXCEPT ![1] =
                        [req EXCEPT !.filter = f, !.sort = st, !.page = pg.page, !.limit = pg.limit,
                                    !.skip = pg.skip, !.items = [i \in 1..Len(page) |-> coll[page[i]]],
                                    !.pc = IF ep \in Paged THEN "found" ELSE "done",
                                    !.code = IF ep \in Paged THEN 0 ELSE 200]]

ListRequest ==
    /\ reqs[1].op = "idle"
    /\ \E ep \in Endpoints, user \in Callers, id \in Agents :
          /\ ep # "agentprops" => id = "a1"
          /\ ep \in {"list", "featured", "agents", "top"} => user = Anon
          /\ \E query \in Queries(ep) : ListBegin(ep, user, id, query)
    /\ UNCHANGED <<userVars, propVars, contacts, budget, last>>

\* countDocuments and the response of a paginated handler
ListCount ==
    /\ reqs[1].op \in Paged /\ reqs[1].pc = "found"
    /\ LET total == countDocuments(epColl(reqs[1].op), reqs[1].filter)
       IN  reqs' = [reqs EXCEPT ![1].total = total, ![1].pages = ceilDiv(total, reqs[1].limit),
                                ![1].pc = "done", ![1].code = 200]
    /\ UNCHANGED <<userVars, propVars, contacts, budget, last>>

\* another request saves a new status of a property between the find and the
\* count of a list request
ListedStatusSave ==
    /\ reqs[1].op \in {"list", "mine", "agentprops"} /\ reqs[1].pc = "found" /\ ~reqs[1].raced
    /\ \E i \in 1..Len(props), status \in {"active", "sold"} :
          /\ props[i]["status"] # Word(status)
          /\ props' = [props EXCEPT ![i] = Put(@, "status", Word(status))]
    /\ reqs' = [reqs EXCEPT ![1].raced = TRUE]
    /\ UNCHANGED <<userVars, nextProp, remote, nextPid, contacts, budget, last>>

InitList ==
    /\ rating = [a \in Agents |-> [average |-> RatInt(0), count |-> 0]]
    /\ profile = [u \in Users |-> NewProfile]
    /\ hist = [a \in Agents |-> [vals |-> <<>>, overlap |-> FALSE, lost |-> {}, fetched |-> 0]]
    /\ reqs = [r \in Slots |-> Idle]
    /\ last = NoResponse
    /\ props \in Collections
    /\ nextProp = Len(props)
    /\ remote = {}
    /\ nextPid = 0
    /\ contacts = Len(ContactDocs)
    /\ budget = 0
NextList == ListRequest \/ ListCount \/ ListedStatusSave
SpecList == InitList /\ [][NextList]_vars

(***************************************************************************)
(* List endpoints: claims C13 to C19, checked under SpecList               *)
(***************************************************************************)
\* the request in slot 1 is a request to endpoint ep whose page was read
Listed(ep) == reqs[1].op = ep /\ reqs[1].code \in {0, 200}
\* ... and it was answered 200
Answered(ep) == reqs[1].op = ep /\ reqs[1].pc = "done" /\ reqs[1].code = 200

\* the key is supplied with a non-empty value
Supplied(key) == key \in DOMAIN reqs[1].query /\ reqs[1].query[key] # <<>>
Value(key) == reqs[1].query[key]

\* C13: every property the public list returns has status active and
\* satisfies every supplied predicate; with no sortBy the results come
\* featured first, then newest first.
C13_ListReturnsActiveMatchesInOrder ==
    Listed("list")
    => LET items == reqs[1].items
       IN  /\ \A i \in 1..Len(items) :
                LET d == items[i]
                IN  /\ d["status"] = Word("active")
                    /\ Supplied("type") => d["type"] = Value("type")
                    /\ Supplied("listingType") => d["listingType"] = Value("listingType")
                    /\ Supplied("city") => regExpTest(Value("city"), d["address.city"])
                    /\ Supplied("state") => regExpTest(Value("state"), d["address.state"])
                    /\ Supplied("bedrooms") => d["specifications.bedrooms"] >= parseIntStr(Value("bedrooms")).n
                    /\ Supplied("bathrooms") => d["specifications.bathrooms"] >= parseIntStr(Value("bathrooms")).n
                    /\ Supplied("minPrice") => RatLeq(parseFloatStr(Value("minPrice")).q, RatInt(d["price.amount"]))
                    /\ Supplied("maxPrice") => RatLeq(RatInt(d["price.amount"]), parseFloatStr(Value("maxPrice")).q)
                    /\ Supplied("search") => \E path \in SearchPaths : regExpTest(Value("search"), d[path])
           /\ ~Supplied("sortBy")
                => \A i, j \in 1..Len(items) :
                      i < j => \/ items[i]["featured"] /\ ~items[j]["featured"]
                               \/ /\ items[i]["featured"] = items[j]["featured"]
                                  /\ items[i]["createdAt"] > items[j]["createdAt"]

\* a list request with city and minPrice returned some but not all of the
\* stored properties
C13_Witness ==
    /\ Answered("list") /\ Supplied("city") /\ Supplied("minPrice")
    /\ Len(reqs[1].items) >= 1 /\ reqs[1].total < Len(props)

\* the path the Filter Builder constrains for a parameter
FilterPath ==
    [key \in {"type", "listingType", "city", "state", "bedrooms", "bathrooms", "minPrice", "maxPrice", "search"} |->
        CASE key = "type" -> "type"
          [] key = "listingType" -> "listingType"
          [] key = "city" -> "address.city"
          [] key = "state" -> "address.state"
          [] key = "bedrooms" -> "specifications.bedrooms"
          [] key = "bathrooms" -> "specifications.bathrooms"
          [] key = "minPrice" -> "price.amount"
          [] key = "maxPrice" -> "price.amount"
          [] key = "search" -> "$or"]

\* C14: the Filter Builder never includes a key for an absent or empty
\* parameter: the predicate is status = active plus exactly one constraint per
\* supplied parameter (price.amount with only the supplied bounds), and with
\* no parameters it is exactly {status: active}.
C14_FilterHasOnlySuppliedKeys ==
    Listed("list")
    => LET f == reqs[1].filter
       IN  /\ DOMAIN f = {"status"} \cup {FilterPath[key] : key \in {k \in DOMAIN FilterPath : Supplied(k)}}
           /\ f["status"] = Eq(Word("active"))
           /\ "price.amount" \in DOMAIN f
                => /\ f["price.amount"].kind = "cmp"
                   /\ DOMAIN f["price.amount"].v =
                         {b \in {"$gte", "$lte"} : Supplied(IF b = "$gte" THEN "minPrice" ELSE "maxPrice")}
           /\ \A key \in {"type", "listingType"} : Supplied(key) => f[FilterPath[key]] = Eq(Value(key))
           /\ \A key \in {"city", "state"} : Supplied(key) => f[FilterPath[key]] = Regex(Value(key))

\* a list request with city and minPrice but no maxPrice was answered
C14_Witness ==
    /\ Answered("list") /\ Supplied("city") /\ Supplied("minPrice") /\ ~Supplied("maxPrice")
    /\ DOMAIN reqs[1].filter["price.amount"].v = {"$gte"}

\* C15: the predicate of my-properties restricts to the caller's own agent id
\* and carries a status restriction only if a status parameter is given; no
\* property of another agent is returned.
C15_MyPropertiesAreTheCallers ==
    Listed("mine")
    => /\ DOMAIN reqs[1].filter = {"agent"} \cup (IF Supplied("status") THEN {"status"} ELSE {})
       /\ reqs[1].filter["agent"] = Eq(Word(reqs[1].user))
       /\ Supplied("status") => reqs[1].filter["status"] = Eq(Value("status"))
       /\ \A i \in 1..Len(reqs[1].items) : reqs[1].items[i]["agent"] = Word(reqs[1].user)

\* agent a1 listed its properties, a draft among them, while agent a2 has
\* properties too
C15_Witness ==
    /\ Answered("mine") /\ reqs[1].user = "a1" /\ ~Supplied("status")
    /\ \E i \in 1..Len(reqs[1].items) : reqs[1].items[i]["status"] = Word("draft")
    /\ \E i \in 1..Len(props) : props[i]["agent"] = Word("a2")

\* page and size of the request, with the defaults 1 and 10 when absent
PageOf == IF "page" \in DOMAIN reqs[1].query THEN parseIntStr(Value("page")).n ELSE 1
SizeOf == IF "limit" \in DOMAIN reqs[1].query THEN parseIntStr(Value("limit")).n ELSE 10
ValidPageAndSize ==
    /\ "page" \in DOMAIN reqs[1].query => isInt(Value("page"), 1, NoMax)
    /\ "limit" \in DOMAIN reqs[1].query => isInt(Value("limit"), 1, 50)

\* C16: for every valid (page, size) the paginated endpoints use offset
\* (page - 1) x size and limit size, and return at most size elements.
C16_OffsetAndLimit ==
    (reqs[1].op \in Paged /\ reqs[1].code \in {0, 200} /\ ValidPageAndSize)
    => /\ reqs[1].skip = (PageOf - 1) * SizeOf
       /\ reqs[1].limit = SizeOf
       /\ reqs[1].page = PageOf
       /\ Len(reqs[1].items) <= SizeOf

\* page 2 of size 1 of the public list returned the second match
C16_Witness ==
    /\ Answered("list") /\ Supplied("page") /\ Supplied("limit")
    /\ reqs[1].skip = 1 /\ Len(reqs[1].items) = 1 /\ reqs[1].total >= 2

\* C17: the reported page count is ceil(total / size), 0 when total is 0, and
\* total is the number of stored documents that match the predicate of the
\* page query.
C17_PagesIsCeiling ==
    (reqs[1].op \in Paged /\ reqs[1].pc = "done" /\ reqs[1].code = 200)
    => LET coll == IF reqs[1].op = "agents" THEN AgentDocs
                   ELSE IF reqs[1].op = "contacts" THEN ContactDocs ELSE props
       IN  /\ reqs[1].total = Cardinality({i \in 1..Len(coll) : matches(coll[i], reqs[1].filter)})
           /\ reqs[1].pages * reqs[1].limit >= reqs[1].total
           /\ (reqs[1].pages - 1) * reqs[1].limit < reqs[1].total \/ reqs[1].pages = 0
           /\ reqs[1].total = 0 => reqs[1].pages = 0

\* three active properties in pages of two make two pages
C17_Witness ==
    /\ Answered("list") /\ reqs[1].total = 3 /\ reqs[1].limit = 2 /\ reqs[1].pages = 2

\* the request carries a page number below 1 or a page size outside 1..50
OutOfBounds ==
    \/ "page" \in DOMAIN reqs[1].query /\ isInt(Value("page"), -NoMax, 0)
    \/ "limit" \in DOMAIN reqs[1].query /\ (isInt(Value("limit"), -NoMax, 0) \/ isInt(Value("limit"), 51, NoMax))

\* C18: on every paginated endpoint a page below 1 or a size outside 1..50 is
\* rejected with a validation error (400), never clamped or defaulted.
C18_OutOfBoundsRejected ==
    (reqs[1].op \in Endpoints /\ reqs[1].code \notin {401, 403} /\ OutOfBounds) => reqs[1].code = 400

PropertySortPath ==
    [key \in {"price", "createdAt", "views", "area"} |->
        IF key = "price" THEN "price.amount" ELSE IF key = "area" THEN "specifications.area.value" ELSE key]
AgentSortPath ==
    [key \in {"rating", "experience", "transactions", "createdAt"} |->
        CASE key = "rating" -> "agentProfile.rating.average"
          [] key = "experience" -> "agentProfile.experience"
          [] key = "transactions" -> "agentProfile.totalTransactions"
          [] key = "createdAt" -> "createdAt"]
Direction == IF "sortOrder" \in DOMAIN reqs[1].query /\ Value("sortOrder") = Word("asc") THEN 1 ELSE -1

\* C19: with a sort key the Sort Resolver yields a single-field ordering on
\* the path of the key, ascending exactly when the direction is asc; with no
\* sort key it yields the default: featured then createdAt descending for
\* properties, rating average then transaction count descending for agents.
C19_SortResolver ==
    /\ Listed("list")
          => reqs[1].sort = IF Supplied("sortBy") THEN << <<PropertySortPath[Value("sortBy")[1]], Direction>> >>
                            ELSE << <<"featured", -1>>, <<"createdAt", -1>> >>
    /\ Listed("agents")
          => reqs[1].sort = IF Supplied("sortBy") THEN << <<AgentSortPath[Value("sortBy")[1]], Direction>> >>
                            ELSE << <<"agentProfile.rating.average", -1>>, <<"agentProfile.totalTransactions", -1>> >>

\* the public list sorted by price without a direction came back in
\* descending order of price
C19_Witness ==
    /\ Answered("list") /\ Supplied("sortBy") /\ Value("sortBy") = Word("price") /\ ~Supplied("sortOrder")
    /\ reqs[1].sort = << <<"price.amount", -1>> >>
    /\ Len(reqs[1].items) >= 2
    /\ reqs[1].items[1]["price.amount"] > reqs[1].items[Len(reqs[1].items)]["price.amount"]

(***************************************************************************)
(* Property create: claim C20, checked under Spec                          *)
(***************************************************************************)
\* C20: a create with valid fields by an authenticated agent answers 201 and
\* stores a property with status draft unless the body gives a status, and
\* with the caller as agent whatever agent the body names; a caller who is
\* not an agent gets 403 and nothing is stored.
C20_CreateStoresDraftOfCaller ==
    [][(Responded /\ last'.op = "create" /\ last'.user \in Users) =>
       \A user \in {last'.user}, body \in CreateBodies :
          Create(user, body)
          => /\ (user \in Agents /\ body.fields = "ok" /\ body.status \in Statuses \cup {Absent})
                   => /\ last'.code = 201 /\ last'.op = "create" /\ last'.id = nextProp + 1
                      /\ ~props[nextProp + 1].exists /\ props'[nextProp + 1].exists
                      /\ props'[nextProp + 1].agent = user
                      /\ props'[nextProp + 1].status = IF body.status = Absent THEN "draft" ELSE body.status
                      /\ \A p \in PropIds \ {nextProp + 1} : props'[p] = props[p]
             /\ user \notin Agents => (last'.code = 403 /\ props' = props /\ nextProp' = nextProp)]_vars

\* agent a1 created a property that is stored as its draft
C20_Witness ==
    /\ last.op = "create" /\ last.code = 201 /\ last.user = "a1"
    /\ props[last.id].exists /\ props[last.id].agent = "a1" /\ props[last.id].status = "draft"

(***************************************************************************)
(* Image requests on a property that exists: the specifications of the     *)
(* image claims.  The property belongs to agent a1 and starts with no       *)
(* image, as Property.create leaves it when the body names none.            *)
(***************************************************************************)
MaxImageRequests == 3   \* requests sent in the image specifications

InitImages ==
    /\ rating = [a \in Agents |-> [average |-> RatInt(0), count |-> 0]]
    /\ profile = [u \in Users |-> NewProfile]
    /\ hist = [a \in Agents |-> [vals |-> <<>>, overlap |-> FALSE, lost |-> {}, fetched |-> 0]]
    /\ reqs = [r \in Slots |-> Idle]
    /\ last = NoResponse
    /\ props = [p \in PropIds |-> NewProperty("a1", Absent, <<>>)]
    /\ nextProp = MaxProps
    /\ remote = {}
    /\ nextPid = 0
    /\ contacts = 0
    /\ budget = MaxImageRequests

\* image requests in any interleaving
NextImages == ImageRequests
SpecImages == InitImages /\ [][NextImages]_vars

(***************************************************************************)
(* Image delete and the media host: claim C21, checked under SpecImages    *)
(***************************************************************************)
\* the public_ids the stored images of a property refer to
References(doc) == {doc.images[i].pid : i \in 1..Len(doc.images)}

\* C21: a failure of the media host while an image is deleted is swallowed.
\* The delete ends as it ends when the host succeeds, except that the file
\* stays on the host: the image is removed from the property, the first
\* remaining image is promoted when the removed one was primary, the property
\* is saved and the answer is 200 (the save is refused, with 500, only when
\* the property was changed or deleted since the handler read it, whatever
\* the host did); the host was called once and is not called again.
C21_MediaHostFailureSwallowed ==
    [][\A r \in Slots :
          (/\ reqs[r].op = "imgdelete" /\ reqs'[r].op = "idle"
           /\ reqs[r].doc.images[reqs[r].arg].pid \in remote \cap remote')
          => LET q == reqs[r]
                 stored == props[q.id]
                 gone == q.doc.images[q.arg]
             IN  /\ last'.op = "imgdelete" /\ last'.cloud = 1
                 /\ remote' = remote
                 /\ \A r2 \in Slots : reqs'[r2].op = "imgdelete" => reqs'[r2] = reqs[r2]
                 /\ IF stored.exists /\ stored.v = q.doc.v
                    THEN /\ last'.code = 200
                         /\ props'[q.id].v = stored.v + 1
                         /\ Len(props'[q.id].images) = Len(q.doc.images) - 1
                         /\ \A i \in 1..Len(props'[q.id].images) :
                               /\ props'[q.id].images[i].pid = q.doc.images[IF i < q.arg THEN i ELSE i + 1].pid
                               /\ props'[q.id].images[i].isPrimary =
                                     \/ q.doc.images[IF i < q.arg THEN i ELSE i + 1].isPrimary
                                     \/ (i = 1 /\ gone.isPrimary)
                    ELSE last'.code = 500 /\ props' = props]_vars

\* two files were uploaded, the delete of the first (the primary) was answered
\* 200 although the host failed: both files are on the host, the second image
\* is the only one left and is primary
C21_Witness ==
    /\ last.op = "imgdelete" /\ last.code = 200
    /\ remote = {1, 2}
    /\ props[1].images = <<Image(2, TRUE)>>

(***************************************************************************)
(* Multi-file upload: claim C22, checked under SpecImages                  *)
(***************************************************************************)
Settled(promises, state) == {i \in 1..Len(promises) : promises[i].state = state}

\* C22: the uploads of the files of one request run concurrently and are
\* joined before any reference is persisted.  While a file is pending or once
\* a file has failed, no step of the request changes the property, and the
\* first failure is answered 500; when every file is stored, one save appends
\* a reference to each file, in the order of the files, and the answer is
\* 200.  No step of an upload removes a file from the host: the files a failed
\* request stored (before or after its failure) stay on the host, and no
\* stored property ever refers to them.
C22_UploadJoinedBeforePersisting ==
    [][/\ \A r \in Slots :
             (reqs[r].op = "upload" /\ reqs'[r] # reqs[r])
             => LET q == reqs[r]
                    stored == props[q.id]
                    all == 1..Len(q.arg)
                IN  /\ remote \subseteq remote'
                    /\ IF Settled(q.arg, "resolved") = all
                       THEN /\ remote' = remote /\ reqs'[r].op = "idle"
                            /\ stored.exists =>
                                  /\ last'.code = 200
                                  /\ Len(props'[q.id].images) = Len(stored.images) + Len(q.arg)
                                  /\ \A i \in 1..Len(stored.images) : props'[q.id].images[i] = stored.images[i]
                                  /\ \A i \in all :
                                        props'[q.id].images[Len(stored.images) + i].pid = q.arg[i].public_id
                       ELSE /\ props' = props
                            /\ (Settled(q.arg, "rejected") = {} /\ remote' = remote)
                                  => (last'.n = last.n + 1 /\ last'.op = "upload" /\ last'.code = 500)
                            /\ Settled(q.arg, "rejected") # {} => last' = last
       /\ \A a \in Agents :
             /\ hist'[a].lost \subseteq remote'
             /\ \A p \in PropIds : props'[p].exists => hist'[a].lost \cap References(props'[p]) = {}]_vars

\* an upload of two files was answered 500 because the first file failed; the
\* second file is on the host and the property has no image
C22_Witness ==
    /\ last.op = "upload" /\ last.code = 500 /\ last.user = "a1"
    /\ \A r \in Slots : reqs[r].op = "idle"
    /\ nextPid = 2 /\ remote = {2} /\ hist["a1"].lost = {2}
    /\ props[1].images = <<>>

(***************************************************************************)
(* Image requests sent one after another: claim C25, checked under         *)
(* SpecImagesSeq                                                           *)
(***************************************************************************)
MaxSeqImageRequests == 4    \* requests sent one after another

\* no request is being handled
Quiet == \A r \in Slots : reqs[r].op = "idle"

SeqUploadRequest == Quiet /\ UploadRequest
SeqImageUpdateRequest == Quiet /\ ImageUpdateRequest
SeqImageDeleteRequest == Quiet /\ ImageDeleteRequest

InitImagesSeq ==
    /\ rating = [a \in Agents |-> [average |-> RatInt(0), count |-> 0]]
    /\ profile = [u \in Users |-> NewProfile]
    /\ hist = [a \in Agents |-> [vals |-> <<>>, overlap |-> FALSE, lost |-> {}, fetched |-> 0]]
    /\ reqs = [r \in Slots |-> Idle]
    /\ last = NoResponse
    /\ props = [p \in PropIds |-> NewProperty("a1", Absent, <<>>)]
    /\ nextProp = MaxProps
    /\ remote = {}
    /\ nextPid = 0
    /\ contacts = 0
    /\ budget = MaxSeqImageRequests

NextImagesSeq ==
    \/ SeqUploadRequest \/ UploadCallback \/ UploadSave
    \/ SeqImageUpdateRequest \/ ImageUpdateSave
    \/ SeqImageDeleteRequest \/ ImageDeleteSave
SpecImagesSeq == InitImagesSeq /\ [][NextImagesSeq]_vars

\* C25: starting from a property without images, after any sequence of image
\* uploads, image updates and image deletes of which no two overlap, a
\* property that has an image has exactly one primary image; and an update
\* with isPrimary = true that is answered 200 leaves the image it names as the
\* only primary one.
C25_ExactlyOnePrimary ==
    [][/\ \A p \in PropIds :
             (props'[p].exists /\ Len(props'[p].images) > 0)
             => Cardinality(Primaries(props'[p].images)) = 1
       /\ \A r \in Slots :
             (/\ reqs[r].op = "imgupdate" /\ reqs'[r].op = "idle"
              /\ reqs[r].arg.body.isPrimary = "true")
             => /\ last'.op = "imgupdate" /\ last'.code = 200
                /\ Primaries(props'[reqs[r].id].images) = {reqs[r].arg.index}]_vars

\* after an upload of two files, an update has made the second image the
\* primary one
C25_Witness ==
    /\ last.op = "imgupdate" /\ last.code = 200
    /\ props[1].images = <<Image(1, FALSE), Image(2, TRUE)>>

(***************************************************************************)
(* Dashboard Aggregator: claim C23, checked under Spec                     *)
(***************************************************************************)
\* C23: a dashboard statistics request changes no stored property and no user
\* document (views, inquiries, status and rating are as before), whatever it
\* answers (200, 401, 403), and whatever requests are being handled meanwhile.
C23_DashboardReadOnly ==
    [][(Responded /\ last'.op = "dashboard")
       => /\ props' = props /\ nextProp' = nextProp
          /\ rating' = rating
          /\ contacts' = contacts /\ remote' = remote /\ reqs' = reqs]_vars

\* agent a1 has read the statistics of its one property
C23_Witness ==
    /\ last.op = "dashboard" /\ last.code = 200 /\ last.user = "a1"
    /\ last.body.totalProperties = 1 /\ last.body.draftProperties = 1
    /\ props[1].exists /\ props[1].views = 0

(***************************************************************************)
(* The dashboard of an agent with many properties: the specification of    *)
(* claim C24.  The collection is any of a family of stored collections; one *)
(* dashboard request is sent.                                               *)
(***************************************************************************)
MaxDashProps == 7       \* properties in the collection

\* property p: every seventh belongs to agent a2, the others to agent a1
DashOwner(p) == IF p % 7 = 0 THEN "a2" ELSE "a1"
\* the inquiries property p may hold, by their createdAt: none, one, or two
\* of which either the last or the first is the newer
InquiryChoices == 1..4
inquiriesOf(p, choice) ==
    CASE choice = 1 -> <<>>
      [] choice = 2 -> <<Inquiry(p)>>
      [] choice = 3 -> <<Inquiry(1), Inquiry(9)>>
      [] choice = 4 -> <<Inquiry(9 - p), Inquiry(p)>>
DashDoc(p, choice) ==
    [NewProperty(DashOwner(p), CASE p % 3 = 0 -> "active" [] p % 3 = 1 -> "sold" [] OTHER -> Absent, <<>>)
        EXCEPT !.views = p, !.inquiries = inquiriesOf(p, choice)]
DashCollections ==
    {[p \in 1..MaxDashProps |-> DashDoc(p, choice[p])] : choice \in [1..MaxDashProps -> InquiryChoices]}

InitDash ==
    /\ rating = [a \in Agents |-> [average |-> RatInt(0), count |-> 0]]
    /\ profile = [u \in Users |-> NewProfile]
    /\ hist = [a \in Agents |-> [vals |-> <<>>, overlap |-> FALSE, lost |-> {}, fetched |-> 0]]
    /\ reqs = [r \in Slots |-> Idle]
    /\ last = NoResponse
    /\ props \in DashCollections
    /\ nextProp = MaxDashProps
    /\ remote = {}
    /\ nextPid = 0
    /\ contacts = 0
    /\ budget = 1
NextDash == DashboardRequest
SpecDash == InitDash /\ [][NextDash]_vars

\* every inquiry stored on a property of the agent
InquiriesOf(user) ==
    {[createdAt |-> props[p].inquiries[i].createdAt, propertyId |-> p, index |-> i] :
        <<p, i>> \in {x \in ownedBy(props, user) \X (1..4) : x[2] <= Len(props[x[1]].inquiries)}}

\* C24: the recent-inquiries list of the dashboard has at most 5 entries, is
\* sorted by createdAt newest first, and holds the 5 most recent inquiries
\* over all the properties of the caller (all of them when there are fewer
\* than 5): its entries are distinct inquiries of the caller's properties and
\* no inquiry left out is more recent than one in the list.
C24_RecentInquiries ==
    (last.op = "dashboard" /\ last.code = 200) =>
        LET recent == last.body.recentInquiries
            all == InquiriesOf(last.user)
            listed == {recent[i] : i \in 1..Len(recent)}
        IN  /\ Len(recent) = IF Cardinality(all) < 5 THEN Cardinality(all) ELSE 5
            /\ \A i \in 1..(Len(recent) - 1) : recent[i].createdAt >= recent[i + 1].createdAt
            /\ listed \subseteq all
            /\ Cardinality(listed) = Len(recent)
            /\ \A x \in all \ listed : \A y \in listed : x.createdAt <= y.createdAt

\* agent a1 has six properties with inquiries; the list holds five inquiries,
\* two of them of one property, and leaves out inquiries of other properties
C24_Witness ==
    /\ last.op = "dashboard" /\ last.code = 200 /\ last.user = "a1"
    /\ Cardinality({p \in ownedBy(props, "a1") : Len(props[p].inquiries) > 0}) = 6
    /\ Len(last.body.recentInquiries) = 5
    /\ last.body.recentInquiries[1].propertyId = last.body.recentInquiries[5].propertyId
    /\ last.body.recentInquiries[1].createdAt > last.body.recentInquiries[5].createdAt

(***************************************************************************)
(* Fetches of a property that exists: the specification of claims C26 and  *)
(* C27.  The property belongs to agent a1 and has no view yet.              *)
(***************************************************************************)
MaxViewRequests == 3    \* fetches sent

InitView ==
    /\ rating = [a \in Agents |-> [average |-> RatInt(0), count |-> 0]]
    /\ profile = [u \in Users |-> NewProfile]
    /\ hist = [a \in Agents |-> [vals |-> <<>>, overlap |-> FALSE, lost |-> {}, fetched |-> 0]]
    /\ reqs = [r \in Slots |-> Idle]
    /\ last = NoResponse
    /\ props = [p \in PropIds |-> IF p = 1 THEN NewProperty("a1", "active", <<>>) ELSE NoDoc]
    /\ nextProp = 1
    /\ remote = {}
    /\ nextPid = 0
    /\ contacts = 0
    /\ budget = MaxViewRequests
NextView == ViewRequest \/ ViewSave
SpecView == InitView /\ [][NextView]_vars

\* C26: a fetch of a property by an anonymous requester or by a user who is
\* not its agent increments the stored views and analytics.impressions by
\* exactly 1 each; a fetch by its agent leaves both unchanged; a fetch of a
\* property that does not exist changes nothing and is answered 404.
C26_FetchCountsOneView ==
    [][/\ \A r \in Slots :
             (reqs[r].op = "view" /\ reqs'[r].op = "idle" /\ props[reqs[r].id].exists)
             => /\ last'.code = 200
                /\ props'[reqs[r].id].views = props[reqs[r].id].views + 1
                /\ props'[reqs[r].id].impressions = props[reqs[r].id].impressions + 1
       /\ (Responded /\ last'.op = "view" /\ reqs' = reqs)
             => /\ props' = props
                /\ IF props[last'.id].exists
                   THEN last'.code = 200 /\ last'.user = props[last'.id].agent
                   ELSE last'.code = 404]_vars

\* the views of all the properties of an agent
ViewsOf(coll, a) == sumOver([p \in ownedBy(coll, a) |-> coll[p].views], ownedBy(coll, a))

\* C27: under any interleaving of concurrent fetches the stored views of a
\* property never decrease, and once all the fetches have completed they
\* equal the initial value (0) plus the number of fetches by others than the
\* owner.
C27_ViewsCountEveryFetch ==
    [][/\ \A p \in PropIds : (props[p].exists /\ props'[p].exists) => props'[p].views >= props[p].views
       /\ (\A r \in Slots : reqs'[r].op = "idle")
             => \A a \in Agents : ViewsOf(props', a) = hist'[a].fetched]_vars

(***************************************************************************)
(* An agent's property list: claim C28, checked under SpecList             *)
(***************************************************************************)
\* the properties of agent id that a request by user with this query may be
\* shown: the agent itself sees the status it asks for (all without one),
\* anyone else the active ones
Disclosed(coll, user, id, query) ==
    LET own == {i \in 1..Len(coll) : coll[i]["agent"] = Word(id)}
    IN  IF user # Anon /\ user = id
        THEN IF truthy(query, "status") THEN {i \in own : coll[i]["status"] = query["status"]} ELSE own
        ELSE {i \in own : coll[i]["status"] = Word("active")}

\* C28: a request to GET /agents/:id/properties by an anonymous user or by a
\* user other than :id returns only active properties of that agent, whatever
\* status parameter it sends; only for the agent itself is the status parameter
\* honoured, and without one no status restriction applies.  The page holds
\* as many of those properties as skip and limit allow.
C28_NonActiveNeverDisclosed ==
    [][(reqs[1].op = "idle" /\ reqs'[1].op = "agentprops" /\ reqs'[1].code \in {0, 200})
       => LET q == reqs'[1]
              shown == Disclosed(props, q.user, q.id, q.query)
              rest == Cardinality(shown) - q.skip
          IN  /\ \A k \in 1..Len(q.items) : q.items[k] \in {props[i] : i \in shown}
              /\ Len(q.items) = (IF rest < 0 THEN 0 ELSE IF rest < q.limit THEN rest ELSE q.limit)
              /\ (q.user = Anon \/ q.user # q.id)
                    => \A k \in 1..Len(q.items) :
                          /\ q.items[k]["status"] = Word("active")
                          /\ q.items[k]["agent"] = Word(q.id)]_vars

\* agent a2 asked for the drafts of agent a1, who has one, and was shown the
\* active properties of a1 instead
C28_Witness ==
    /\ reqs[1].op = "agentprops" /\ reqs[1].code = 200
    /\ reqs[1].user = "a2" /\ reqs[1].id = "a1"
    /\ truthy(reqs[1].query, "status") /\ reqs[1].query["status"] = Word("draft")
    /\ \E i \in 1..Len(props) : props[i]["agent"] = Word("a1") /\ props[i]["status"] = Word("draft")
    /\ Len(reqs[1].items) >= 1
    /\ \A k \in 1..Len(reqs[1].items) : reqs[1].items[k]["status"] = Word("active")

(***************************************************************************)
(* The bounds of the stored rating: claim C30, checked under SpecRate      *)
(***************************************************************************)
\* C30: in every reachable state, whatever rate requests were sent and however
\* their handlers interleaved, an agent's rating.average is 0 when its
\* rating.count is 0 and lies within [1,5] when rating.count >= 1.
C30_AverageWithinBounds ==
    \A a \in Agents :
        /\ rating[a].count >= 0
        /\ rating[a].count = 0 => rating[a].average = RatInt(0)
        /\ rating[a].count >= 1 => /\ RatLeq(RatInt(RatingMin), rating[a].average)
                                   /\ RatLeq(rating[a].average, RatInt(RatingMax))

\* three ratings of agent a1 were saved by overlapping handlers, one count
\* was lost, and the stored average is neither bound
C30_Witness ==
    /\ hist["a1"].overlap /\ Len(hist["a1"].vals) = 3
    /\ rating["a1"].count = 2
    /\ rating["a1"].average \notin {RatInt(RatingMin), RatInt(RatingMax)}
    /\ \A r \in Slots : reqs[r].op = "idle"

(***************************************************************************)
(* The writers of a user document: PUT /api/agents/profile,                *)
(* POST /api/upload/profile-image and POST /api/upload/documents            *)
(***************************************************************************)
\* the user document of u as the update operators see it: its paths, the
\* rating of an agent among them
userDoc(u) ==
    [path \in DOMAIN profile[u] \cup (IF u \in Agents THEN {"agentProfile.rating"} ELSE {}) |->
        IF path = "agentProfile.rating" THEN rating[u] ELSE profile[u][path]]

\* User.findByIdAndUpdate(id, update): $set of the paths of update
updateUser(doc, update) ==
    [path \in DOMAIN doc |-> IF path \in DOMAIN update THEN update[path] ELSE doc[path]]

\* the stored documents after user's document became doc
storeUser(user, doc) ==
    /\ profile' = [profile EXCEPT ![user] = [path \in DOMAIN @ |-> doc[path]]]
    /\ rating' = IF user \in Agents THEN [rating EXCEPT ![user] = doc["agentProfile.rating"]] ELSE rating

\* an allow-list that lets the rating through
allowedFields_withRating == {"experience", "specialization", "bio", "phone", "address", "rating"}

allowedFields == {"experience", "specialization", "bio", "phone", "address"}

\* updateFields[`agentProfile.${key}`] = req.body[key] for the allowed keys
updateFields(body) ==
    LET keys == DOMAIN body \cap allowedFields
    IN  [path \in {"agentProfile." \o key : key \in keys} |->
            body[CHOOSE key \in keys : "agentProfile." \o key = path]]

\* the keys a profile body may carry: the five of the allow-list and rating
ProfileKeys == {"experience", "specialization", "bio", "phone", "address", "rating"}
\* the rating a body claims for its sender
ClaimedRating == [average |-> RatInt(RatingMax), count |-> 9]
\* req.body with these keys; bio is given by its length
ProfileBody(keys, experience, bio) ==
    [key \in keys |-> CASE key = "experience" -> experience
                        [] key = "bio" -> bio
                        [] key = "rating" -> ClaimedRating
                        [] OTHER -> 1]
BioMax == 500
\* the validation chain: experience isInt min 0, bio isLength max 500; the
\* bodies sent carry a valid specialization and phone
profileValid(body) ==
    /\ "experience" \in DOMAIN body => body["experience"] >= 0
    /\ "bio" \in DOMAIN body => body["bio"] <= BioMax

\* PUT /api/agents/profile: protect, requireAgent, the validation chain and
\* one findByIdAndUpdate
ProfileUpdate(user, body) ==
    /\ budget > 0
    /\ budget' = budget - 1
    /\ LET code == IF user = Anon THEN 401 ELSE IF ~isAgent(user) THEN 403
                   ELSE IF ~profileValid(body) THEN 400 ELSE 200
       IN  /\ last' = [n |-> last.n + 1, op |-> "profile", user |-> user, id |-> user,
                       bad |-> ~profileValid(body), code |-> code, msg |-> "profile", was |-> "",
                       cloud |-> 0, keys |-> DOMAIN body]
           /\ IF code = 200 THEN storeUser(user, updateUser(userDoc(user), updateFields(body)))
              ELSE UNCHANGED <<rating, profile>>
    /\ UNCHANGED <<hist, propVars, contacts, reqs>>

\* POST /api/upload/profile-image up to the upload: protect, the file check
ProfileImageBegin(r, user, file) ==
    /\ FreeSlot(r)
    /\ budget > 0
    /\ budget' = budget - 1
    /\ IF user = Anon
       THEN Respond("profileimage", user, user, FALSE, 401, "no token") /\ UNCHANGED <<reqs, nextPid>>
       ELSE IF ~file
       THEN Respond("profileimage", user, user, TRUE, 400, "no image uploaded") /\ UNCHANGED <<reqs, nextPid>>
       ELSE /\ reqs' = [reqs EXCEPT ![r] = [op |-> "profileimage", user |-> user, id |-> user,
                                            arg |-> nextPid + 1, doc |-> 0]]
            /\ nextPid' = nextPid + 1
            /\ UNCHANGED last
    /\ UNCHANGED <<userVars, props, nextProp, remote, contacts>>

\* the path of the profile image: req.user.isAgent ? 'agentProfile.profileImage' : 'profileImage'
updateField(user) == IF isAgent(user) THEN "agentProfile.profileImage" ELSE "profileImage"

\* the upload settles: stored, the handler sets the image path of the user
\* document and answers 200; failed, it answers 500
ProfileImageFinish(r, ok) ==
    /\ Finishing(r, "profileimage")
    /\ LET q == reqs[r]
       IN  IF ok
           THEN /\ remote' = remote \cup {q.arg}
                /\ storeUser(q.user, updateUser(userDoc(q.user), [path \in {updateField(q.user)} |-> q.arg]))
                /\ RespondWith("profileimage", q.user, q.user, FALSE, 200, "profile image updated", "", 1)
           ELSE /\ RespondWith("profileimage", q.user, q.user, FALSE, 500, "something went wrong", "", 1)
                /\ UNCHANGED <<rating, profile, remote>>
    /\ UNCHANGED <<hist, props, nextProp, nextPid, contacts, budget>>

\* POST /api/upload/documents up to the uploads: protect, requireAgent, the
\* files check; the files are sent to the media host together
DocumentsBegin(r, user, files) ==
    /\ FreeSlot(r)
    /\ budget > 0
    /\ budget' = budget - 1
    /\ LET code == IF user = Anon THEN 401 ELSE IF ~isAgent(user) THEN 403
                   ELSE IF files = 0 THEN 400 ELSE 0
       IN  IF code # 0
           THEN Respond("documents", user, user, files = 0, code, "refused") /\ UNCHANGED <<reqs, nextPid>>
           ELSE /\ reqs' = [reqs EXCEPT ![r] = [op |-> "documents", user |-> user, id |-> user,
                                                arg |-> [i \in 1..files |-> nextPid + i], doc |-> 0]]
                /\ nextPid' = nextPid + files
                /\ UNCHANGED last
    /\ UNCHANGED <<userVars, props, nextProp, remote, contacts>>

\* $push: { 'agentProfile.verificationDocuments': { $each: uploadedDocs } }
pushDocuments(doc, uploadedDocs) ==
    [doc EXCEPT !["agentProfile.verificationDocuments"] = @ \o uploadedDocs]

\* the uploads settle, those of the set stored on the media host: with all of
\* them stored the handler pushes the documents and answers 200, otherwise
\* Promise.all rejects and it answers 500
DocumentsFinish(r, stored) ==
    /\ Finishing(r, "documents")
    /\ LET q == reqs[r]
       IN  /\ stored \subseteq {q.arg[i] : i \in 1..Len(q.arg)}
           /\ remote' = remote \cup stored
           /\ IF Cardinality(stored) = Len(q.arg)
              THEN /\ storeUser(q.user, pushDocuments(userDoc(q.user), q.arg))
                   /\ RespondWith("documents", q.user, q.user, FALSE, 200, "documents uploaded", "", Len(q.arg))
              ELSE /\ RespondWith("documents", q.user, q.user, FALSE, 500, "something went wrong", "", Len(q.arg))
                   /\ UNCHANGED <<rating, profile>>
    /\ UNCHANGED <<hist, props, nextProp, nextPid, contacts, budget>>

(***************************************************************************)
(* The requests that touch a user document: the specification of claim C29 *)
(***************************************************************************)
MaxProfileRequests == 2

\* the sets of keys the profile bodies carry: none, each key alone, the
\* experience with a rating, all of them
ProfileKeySets == {{}, ProfileKeys, {"experience", "rating"}} \cup {{key} : key \in ProfileKeys}

ProfileRequest ==
    budget > 0 /\ \E user \in Callers, keys \in ProfileKeySets, experience \in {-1, 2}, bio \in {10, BioMax + 1} :
                      ProfileUpdate(user, ProfileBody(keys, experience, bio))
ProfileImageRequest == budget > 0 /\ \E r \in Free, user \in Callers, file \in BOOLEAN : ProfileImageBegin(r, user, file)
ProfileImageSave == \E r \in Slots, ok \in BOOLEAN : ProfileImageFinish(r, ok)
DocumentsRequest == budget > 0 /\ \E r \in Free, user \in Callers, files \in 0..MaxFiles : DocumentsBegin(r, user, files)
DocumentsSave == \E r \in Slots : \E stored \in SUBSET (1..(nextPid)) : DocumentsFinish(r, stored)

InitProfile ==
    /\ InitUsers
    /\ budget = MaxProfileRequests
NextProfile ==
    \/ RateRequest \/ RateSave
    \/ ProfileRequest
    \/ ProfileImageRequest \/ ProfileImageSave
    \/ DocumentsRequest \/ DocumentsSave
    \/ DashboardRequest
SpecProfile == InitProfile /\ [][NextProfile]_vars

====
